---------------------------- MODULE Spec2Model ----------------------------
(***************************************************************************)
(* Metrics computation pipeline of the stock analysis dashboard:           *)
(*   - RiskAssessment.get_risk_rating        (src/components/risk.py)      *)
(*   - get_technical_indicators              (src/utils/technical_...py)   *)
(*   - get_financial_metrics / calculate_fundamental_scores                *)
(*                                           (src/utils/financial_...py)   *)
(* Every operation is a pure function of its argument.  A behaviour picks  *)
(* one operation and one argument (Init) and then performs the call (one   *)
(* action per operation), leaving the result in the state.                 *)
(*                                                                         *)
(* Numbers.  A Python float is a record [t, v]: t = "num" carries the      *)
(* value v as a scaled integer, t = "nan" / "inf" / "ninf" are the IEEE    *)
(* specials.  The same record shape carries the other Python values a      *)
(* mapping can hold: t = "None", t = "str" (a non-numeric string) and      *)
(* t = "absent" (the key is not in the mapping).                           *)
(***************************************************************************)
EXTENDS Integers, Sequences, FiniteSets, TLC

VARIABLES
    op,            \* the operation this behaviour calls
    pc,            \* "call": argument bound, call pending; "done": returned
    risk_metrics,  \* argument of get_risk_rating (RiskAnalyzer.risk_metrics)
    risk_rating,   \* its return value, with the local risk_score
    df,            \* argument of get_technical_indicators (mutated in place)
    indicators,    \* its return value
    frame,         \* locals of get_technical_indicators when it returned
    stock_info,    \* argument of get_financial_metrics
    metrics,       \* its return value; argument of calculate_fundamental_scores
    scores,        \* return value of a direct calculate_fundamental_scores call
    original,      \* the caller's table as it was before the first call on it
    benchmark,     \* what yf.download gave the latest RiskAnalyzer
    analyzer,      \* the TechnicalAnalysis instance (self.df, self.signals)
    args,          \* remaining arguments of the call (window, period)
    result,        \* return value of the latest call
    returned       \* objects returned by the calls so far, oldest first

vars == <<op, pc, risk_metrics, risk_rating, df, indicators, frame, stock_info, metrics, scores,
          original, benchmark, analyzer, args, result, returned>>

riskVars == <<risk_metrics, risk_rating>>
techVars == <<df, indicators, frame>>
finVars  == <<stock_info, metrics, scores>>
callVars == <<original, benchmark, analyzer, args, result, returned>>

----------------------------------------------------------------------------
(* Python values *)

Num(n)  == [t |-> "num",    v |-> n]
NaN     == [t |-> "nan",    v |-> 0]
PosInf  == [t |-> "inf",    v |-> 0]
NegInf  == [t |-> "ninf",   v |-> 0]
None    == [t |-> "None",   v |-> 0]
Str(x)  == [t |-> "str",    v |-> 0, s |-> x]
Absent  == [t |-> "absent", v |-> 0]

IsFloat(x) == x.t \in {"num", "nan", "inf", "ninf"}

\* a > b on floats: any comparison with NaN is False
PyGt(a, b) ==
    CASE a.t = "nan" \/ b.t = "nan" -> FALSE
      [] a.t = "inf"                -> b.t # "inf"
      [] a.t = "ninf"               -> FALSE
      [] b.t = "inf"                -> FALSE
      [] b.t = "ninf"               -> TRUE
      [] OTHER                      -> a.v > b.v

PyLt(a, b) == PyGt(b, a)

\* a <= b on floats
PyLe(a, b) == a.t # "nan" /\ b.t # "nan" /\ ~PyGt(a, b)

\* the idle value of a variable no call has written
Idle == [t |-> "idle", v |-> 0]

\* at most this many calls are made on one table or analyzer
MaxCalls == 2

\* nothing has been called on a table or an analyzer yet
CallIdle ==
    /\ original = Idle /\ benchmark = Idle /\ analyzer = Idle
    /\ args = Idle /\ result = Idle /\ returned = <<>>


----------------------------------------------------------------------------
(* RiskAssessment.get_risk_rating.  Risk metrics are carried in hundredths  *)
(* (annual_volatility 0.40 is Num(40), beta 1.5 is Num(150), max_drawdown   *)
(* -0.50 is Num(-50)).                                                      *)

\* bounds of the enumerated RiskMetrics
MaxVol  == 45
MaxBeta == 160
MaxDD   == 55

VolVals  == {NaN} \cup {Num(n) : n \in 14..MaxVol}
BetaVals == {None, NaN, PosInf} \cup {Num(n) : n \in {0} \cup (99..102) \cup (119..122) \cup (149..MaxBeta)}
DDVals   == {NaN} \cup {Num(-n) : n \in {0} \cup (19..21) \cup (29..31) \cup (49..MaxDD)}

RiskMetricsInputs ==
    { [annual_volatility |-> a, beta |-> b, max_drawdown |-> d] :
        a \in VolVals, b \in BetaVals, d \in DDVals }

VolatilityAssessment_GE(annual_vol) ==
    IF PyGt(annual_vol, Num(40)) \/ annual_vol = Num(40)
        THEN [score |-> 3, reasons |-> <<"Very high volatility">>]
    ELSE IF PyGt(annual_vol, Num(25)) \/ annual_vol = Num(25)
        THEN [score |-> 2, reasons |-> <<"High volatility">>]
    ELSE IF PyGt(annual_vol, Num(15)) \/ annual_vol = Num(15)
        THEN [score |-> 1, reasons |-> <<"Moderate volatility">>]
    ELSE [score |-> 0, reasons |-> <<>>]

\* risk.py 183-192
VolatilityAssessment(annual_vol) ==
    IF PyGt(annual_vol, Num(40))
        THEN [score |-> 3, reasons |-> <<"Very high volatility">>]
    ELSE IF PyGt(annual_vol, Num(25))
        THEN [score |-> 2, reasons |-> <<"High volatility">>]
    ELSE IF PyGt(annual_vol, Num(15))
        THEN [score |-> 1, reasons |-> <<"Moderate volatility">>]
    ELSE [score |-> 0, reasons |-> <<>>]

BetaAssessment_NoneAsHighest(beta) ==
    IF beta.t = "None" \/ PyGt(beta, Num(150))
        THEN [score |-> 3, reasons |-> <<"Very high market sensitivity">>]
    ELSE IF PyGt(beta, Num(120))
        THEN [score |-> 2, reasons |-> <<"High market sensitivity">>]
    ELSE IF PyGt(beta, Num(100))
        THEN [score |-> 1, reasons |-> <<"Above-market sensitivity">>]
    ELSE [score |-> 0, reasons |-> <<>>]

\* risk.py 194-204
BetaAssessment(beta) ==
    IF beta.t = "None" THEN [score |-> 0, reasons |-> <<>>]
    ELSE IF PyGt(beta, Num(150))
        THEN [score |-> 3, reasons |-> <<"Very high market sensitivity">>]
    ELSE IF PyGt(beta, Num(120))
        THEN [score |-> 2, reasons |-> <<"High market sensitivity">>]
    ELSE IF PyGt(beta, Num(100))
        THEN [score |-> 1, reasons |-> <<"Above-market sensitivity">>]
    ELSE [score |-> 0, reasons |-> <<>>]

\* risk.py 206-215
DrawdownAssessment(max_drawdown) ==
    IF PyLt(max_drawdown, Num(-50))
        THEN [score |-> 3, reasons |-> <<"Severe historical drawdowns">>]
    ELSE IF PyLt(max_drawdown, Num(-30))
        THEN [score |-> 2, reasons |-> <<"Significant historical drawdowns">>]
    ELSE IF PyLt(max_drawdown, Num(-20))
        THEN [score |-> 1, reasons |-> <<"Moderate historical drawdowns">>]
    ELSE [score |-> 0, reasons |-> <<>>]

FinalRating_GT(risk_score) ==
    IF risk_score > 7 THEN "Very High Risk"
    ELSE IF risk_score > 5 THEN "High Risk"
    ELSE IF risk_score > 3 THEN "Moderate Risk"
    ELSE "Low Risk"

\* risk.py 217-225
FinalRating(risk_score) ==
    IF risk_score >= 7 THEN "Very High Risk"
    ELSE IF risk_score >= 5 THEN "High Risk"
    ELSE IF risk_score >= 3 THEN "Moderate Risk"
    ELSE "Low Risk"

get_risk_rating_DrawdownFirst(m) ==
    LET vol  == VolatilityAssessment(m.annual_volatility)
        bet  == BetaAssessment(m.beta)
        dd   == DrawdownAssessment(m.max_drawdown)
        risk_score == vol.score + bet.score + dd.score
    IN  [rating     |-> FinalRating(risk_score),
         reasons    |-> dd.reasons \o vol.reasons \o bet.reasons,
         risk_score |-> risk_score]

\* risk.py 170-227: the three assessments in order, each adding to risk_score
\* and appending to reasons, then the rating of the total
get_risk_rating(m) ==
    LET vol  == VolatilityAssessment(m.annual_volatility)
        bet  == BetaAssessment(m.beta)
        dd   == DrawdownAssessment(m.max_drawdown)
        risk_score == vol.score + bet.score + dd.score
    IN  [rating     |-> FinalRating(risk_score),
         reasons    |-> vol.reasons \o bet.reasons \o dd.reasons,
         risk_score |-> risk_score]

InitRisk ==
    /\ op = "get_risk_rating"
    /\ pc = "call"
    /\ risk_metrics \in RiskMetricsInputs
    /\ risk_rating = Idle
    /\ df = Idle /\ indicators = Idle /\ frame = Idle
    /\ stock_info = Idle /\ metrics = Idle /\ scores = Idle
    /\ CallIdle

\* display_risk_metrics, risk.py 237: the call and its return
GetRiskRating ==
    /\ op = "get_risk_rating" /\ pc = "call"
    /\ risk_rating' = get_risk_rating(risk_metrics)
    /\ pc' = "done"
    /\ UNCHANGED <<op, risk_metrics, techVars, finVars, callVars>>

SpecRisk == InitRisk /\ [][GetRiskRating]_vars

RiskDone == op = "get_risk_rating" /\ pc = "done"

----------------------------------------------------------------------------
(* get_technical_indicators.  Prices are integers in thousandths; every     *)
(* derived average is carried in the same unit, divisions rounding down.    *)
(* The ta library calls are modelled by what they return for the last bar:  *)
(* a rolling/ewm value is NaN until min_periods = window bars are there.    *)

RECURSIVE Extend(_, _, _)
\* k more bars, each r percent above the bar before it (the recursion halves
\* k, so its depth is logarithmic in the number of bars)
Extend(s, k, r) ==
    IF k <= 0 THEN s
    ELSE IF k = 1 THEN Append(s, (s[Len(s)] * (100 + r)) \div 100)
    ELSE LET half == Extend(s, k \div 2, r)
         IN  IF Len(half) > 0 THEN Extend(half, k - (k \div 2), r) ELSE half

\* an n-bar close series: the last n2 bars move r2 percent a bar, the bars
\* before them r1 percent a bar, from a first close of 100.000
CloseSeries(n, n2, r1, r2) ==
    IF n = 0 THEN <<>>
    ELSE LET last  == IF n2 > n - 1 THEN n - 1 ELSE n2
             first == n - 1 - last
         IN  Extend(Extend(<<100000>>, first, r1), last, r2)

\* an n-bar volume series of 1000 a bar with the last bar as the profile says
VolumeSeries(n, profile) ==
    [i \in 1..n |->
        CASE profile = "zero"  -> 0
          [] profile = "spike" /\ i = n -> 3000
          [] profile = "dry"   /\ i = n -> 300
          [] OTHER -> 1000]

Lens     == {0, 3, 10, 20, 30, 40, 60, 252}
LastLegs == {0, 5, 20}
Rates    == {-1, 0, 1}
Profiles == {"flat", "spike", "dry", "zero"}

\* the table of a close series: highs and lows 0.5 around the close
Table(close, volume) ==
    [Close   |-> close,
     High    |-> [i \in DOMAIN close |-> close[i] + 500],
     Low     |-> [i \in DOMAIN close |-> close[i] - 500],
     Volume  |-> volume,
     columns |-> {"Open", "High", "Low", "Close", "Volume"}]

CloseInputs ==
    { CloseSeries(n, n2, r1, r2) : n \in Lens, n2 \in LastLegs, r1 \in Rates, r2 \in Rates }

PriceSeriesInputs ==
    { Table(c, VolumeSeries(Len(c), p)) : c \in CloseInputs, p \in Profiles }

RECURSIVE SumRange(_, _, _)
SumRange(s, lo, hi) ==
    IF lo > hi THEN 0
    ELSE IF lo = hi THEN s[lo]
    ELSE SumRange(s, lo, (lo + hi) \div 2) + SumRange(s, ((lo + hi) \div 2) + 1, hi)

RECURSIVE MaxRange(_, _, _)
MaxRange(s, lo, hi) ==
    IF lo = hi THEN s[lo]
    ELSE LET a == MaxRange(s, lo, (lo + hi) \div 2)
             b == MaxRange(s, ((lo + hi) \div 2) + 1, hi)
         IN  IF a > b THEN a ELSE b

RECURSIVE MinRange(_, _, _)
MinRange(s, lo, hi) ==
    IF lo = hi THEN s[lo]
    ELSE LET a == MinRange(s, lo, (lo + hi) \div 2)
             b == MinRange(s, ((lo + hi) \div 2) + 1, hi)
         IN  IF a < b THEN a ELSE b

\* ta.trend.sma_indicator(close, window).iloc[-1]:
\* close.rolling(window, min_periods=window).mean()
sma_indicator(close, window) ==
    LET n == Len(close)
    IN  IF n < window THEN NaN
        ELSE Num(SumRange(close, n - window + 1, n) \div window)

RECURSIVE EwmFrom(_, _, _, _, _)
\* y extended by the next k values of the recursion
\* y[i] = ((den - num) * y[i-1] + num * x[i]) / den, y[1] = x[1]
EwmFrom(x, y, k, num, den) ==
    IF k <= 0 THEN y
    ELSE IF k = 1
        THEN LET i == Len(y) + 1
             IN  Append(y, IF i = 1 THEN x[1]
                           ELSE ((den - num) * y[i - 1] + num * x[i]) \div den)
    ELSE LET half == EwmFrom(x, y, k \div 2, num, den)
         IN  IF Len(half) > 0 THEN EwmFrom(x, half, k - (k \div 2), num, den) ELSE half

\* series.ewm(alpha=num/den, adjust=False).mean()
Ewm(x, num, den) == EwmFrom(x, <<>>, Len(x), num, den)

\* the MACD line EMA(12) - EMA(26) from the first bar where both are defined
MacdLine(close) ==
    LET n     == Len(close)
        fast  == Ewm(close, 2, 13)
        slow  == Ewm(close, 2, 27)
    IN  IF n < 26 THEN <<>> ELSE [i \in 1..(n - 25) |-> fast[i + 25] - slow[i + 25]]

\* ta.trend.macd_signal(close).iloc[-1]: EMA(9) of the MACD line
macd_signal(close) ==
    LET line == MacdLine(close)
    IN  IF Len(line) < 9 THEN NaN
        ELSE Num(Ewm(line, 2, 10)[Len(line)])

\* ta.trend.macd_diff(close).iloc[-1]: the histogram, MACD line - signal line
macd_diff(close) ==
    LET line == MacdLine(close)
    IN  IF Len(line) < 9 THEN NaN
        ELSE Num(line[Len(line)] - Ewm(line, 2, 10)[Len(line)])

\* ta.momentum.rsi(close, window=14).iloc[-1], in hundredths: Wilder averages
\* (ewm, alpha = 1/14) of the gains and of the losses, carried in millionths
\* of a price unit; 100 where the average loss is 0
rsi(close) ==
    LET n    == Len(close)
        up   == [i \in 1..n |-> IF i > 1 /\ close[i] > close[i - 1]
                                 THEN (close[i] - close[i - 1]) * 1000 ELSE 0]
        dn   == [i \in 1..n |-> IF i > 1 /\ close[i] < close[i - 1]
                                 THEN (close[i - 1] - close[i]) * 1000 ELSE 0]
        emaup == Ewm(up, 1, 14)[n]
        emadn == Ewm(dn, 1, 14)[n]
    IN  IF n < 14 THEN NaN
        ELSE IF emadn = 0 THEN Num(10000)
        ELSE IF emaup + emadn < 100 THEN Num((10000 * emaup) \div (emaup + emadn))
        ELSE Num((100 * emaup) \div ((emaup + emadn) \div 100))

\* position of the last close against the 20-bar Bollinger bands (mean +- 2
\* population standard deviations): 1 above the upper band, -1 below the
\* lower band, 0 otherwise (also when the bands are NaN).  Deviations are
\* carried in units of 16 thousandths so that their squares fit.
BollingerSide(close) ==
    LET n    == Len(close)
        mean == SumRange(close, n - 19, n) \div 20
        dev  == [i \in 1..20 |-> (close[n - 20 + i] - mean) \div 16]
        sq   == [i \in 1..20 |-> dev[i] * dev[i]]
        d    == (close[n] - mean) \div 16
    IN  IF n < 20 THEN 0
        ELSE IF d > 0 /\ 20 * d * d > 4 * SumRange(sq, 1, 20) THEN 1
        ELSE IF d < 0 /\ 20 * d * d > 4 * SumRange(sq, 1, 20) THEN -1
        ELSE 0

RECURSIVE ISqrtIn(_, _, _)
\* the largest r in lo..hi with r * r <= x
ISqrtIn(x, lo, hi) ==
    IF lo >= hi THEN lo
    ELSE LET mid == (lo + hi + 1) \div 2
         IN  IF mid * mid <= x THEN ISqrtIn(x, mid, hi) ELSE ISqrtIn(x, lo, mid - 1)

ISqrt(x) == ISqrtIn(x, 0, 46340)

\* df['Close'].pct_change().std() * np.sqrt(252) * 100, in tenths of a percent
\* (returns carried in 1e-5, sample standard deviation)
AnnualVolatility(close) ==
    LET n    == Len(close)
        ret  == [i \in 1..(n - 1) |-> ((close[i + 1] - close[i]) * 100000) \div close[i]]
        mean == SumRange(ret, 1, n - 1) \div (n - 1)
        sq   == [i \in 1..(n - 1) |-> (ret[i] - mean) * (ret[i] - mean)]
    IN  IF n < 3 THEN NaN
        ELSE Num(ISqrt((SumRange(sq, 1, n - 1) \div (n - 2)) * 252) \div 100)

\* current_volume / avg_volume in hundredths; 0 / 0.0 on numpy numbers is nan
VolumeRatio(volume) ==
    LET n   == Len(volume)
        sum == SumRange(volume, 1, n)
    IN  IF sum = 0 THEN NaN ELSE Num((volume[n] * n * 100) \div sum)

\* (latest_close - past) / past * 100 formatted '.1f', with its direction word
Trend(latest, past) ==
    LET pct == ((latest - past) * 1000) \div past
    IN  [pct |-> pct, direction |-> IF latest > past THEN "up" ELSE "down"]

Count(flags) == Cardinality({i \in DOMAIN flags : flags[i]})

\* technical_indicators.py 141-150: the mapping returned when anything raised
ErrorIndicators(e) ==
    [error |-> e, MA_Status |-> "N/A", RSI |-> "N/A", MACD |-> "N/A",
     BB_Status |-> "N/A", Overall_Signal |-> "N/A"]

DerivedColumns ==
    {"MA20", "MA50", "MA200", "RSI", "MACD", "MACD_Signal",
     "BB_upper", "BB_middle", "BB_lower"}

UnboundFrame ==
    [latest_close |-> Absent, MA50 |-> Absent, MA200 |-> Absent, rsi_value |-> Absent,
     macd_value |-> Absent, macd_signal |-> Absent, volume_ratio |-> Absent,
     raised |-> "IndexError"]

\* technical_indicators.py 9-150.  Returns the mapping, the table as the call
\* leaves it (the derived columns are assigned into the caller's df) and the
\* locals the overall signal is computed from.
get_technical_indicators(d) ==
    LET close        == d.Close
        n            == Len(close)
        latest_close == Num(close[n])                                  \* 23
        MA20         == sma_indicator(close, 20)                       \* 26-29
        MA50         == sma_indicator(close, 50)
        MA200        == sma_indicator(close, 200)
        MA_Status    ==                                                \* 32-43
            (IF PyGt(latest_close, MA50)
                THEN <<"Price above 50-day MA (Bullish)">>
                ELSE <<"Price below 50-day MA (Bearish)">>)
            \o (IF PyGt(MA50, MA200) THEN <<"Golden Cross pattern (Bullish)">>
                ELSE IF PyLt(MA50, MA200) THEN <<"Death Cross pattern (Bearish)">>
                ELSE <<>>)
        rsi_value    == rsi(close)                                     \* 46-48
        RSI_Signal   == IF PyGt(rsi_value, Num(7000)) THEN "Overbought"  \* 50-55
                        ELSE IF PyLt(rsi_value, Num(3000)) THEN "Oversold"
                        ELSE "Neutral"
        macd_value   == macd_diff(close)                               \* 58, 61
        macd_sig     == macd_signal(close)                             \* 59, 62
        MACD_Signal  == IF PyGt(macd_value, macd_sig) THEN "Bullish" ELSE "Bearish"  \* 65-68
        side         == BollingerSide(close)                           \* 71-83
        BB_Status    == IF side = 1 THEN "Price above upper band (Overbought)"
                        ELSE IF side = -1 THEN "Price below lower band (Oversold)"
                        ELSE "Price within bands (Neutral)"
        volume_ratio == VolumeRatio(d.Volume)                          \* 86-88
        Volume_Signal == IF PyGt(volume_ratio, Num(200)) THEN "Unusually high volume"  \* 90-95
                         ELSE IF PyLt(volume_ratio, Num(50)) THEN "Unusually low volume"
                         ELSE "Normal volume"
        bullish_signals == Count(<<PyGt(latest_close, MA50),           \* 105-111
                                   PyGt(MA50, MA200),
                                   PyLe(Num(3000), rsi_value) /\ PyLe(rsi_value, Num(7000)),
                                   PyGt(macd_value, macd_sig),
                                   PyGt(volume_ratio, Num(100))>>)
        bearish_signals == Count(<<PyLt(latest_close, MA50),           \* 113-119
                                   PyLt(MA50, MA200),
                                   PyGt(rsi_value, Num(7000)) \/ PyLt(rsi_value, Num(3000)),
                                   PyLt(macd_value, macd_sig),
                                   PyLt(volume_ratio, Num(100))>>)
        Overall_Signal == IF bullish_signals > bearish_signals THEN "Bullish"   \* 121-126
                          ELSE IF bearish_signals > bullish_signals THEN "Bearish"
                          ELSE "Neutral"
        withColumns  == [d EXCEPT !.columns = @ \cup DerivedColumns]
        locals       == [latest_close |-> latest_close, MA50 |-> MA50, MA200 |-> MA200,
                         rsi_value |-> rsi_value, macd_value |-> macd_value,
                         macd_signal |-> macd_sig, volume_ratio |-> volume_ratio,
                         raised |-> ""]
    IN  IF n = 0
            \* df['Close'].iloc[-1] of an empty column raises IndexError (23)
            THEN [indicators |-> ErrorIndicators("single positional indexer is out-of-bounds"),
                  df |-> d, frame |-> UnboundFrame]
        ELSE IF n < 20
            \* df['Close'].iloc[-5] (98) or .iloc[-20] (99) raises IndexError
            THEN [indicators |-> ErrorIndicators("single positional indexer is out-of-bounds"),
                  df |-> withColumns, frame |-> [locals EXCEPT !.raised = "IndexError"]]
        ELSE [indicators |->
                [MA20 |-> MA20, MA50 |-> MA50, MA200 |-> MA200, MA_Status |-> MA_Status,
                 RSI |-> rsi_value, RSI_Signal |-> RSI_Signal,
                 MACD |-> macd_value, MACD_Signal |-> MACD_Signal,
                 BB_Status |-> BB_Status, Volume_Signal |-> Volume_Signal,
                 Short_Term_Trend  |-> Trend(close[n], close[n - 4]),    \* 98, 101
                 Medium_Term_Trend |-> Trend(close[n], close[n - 19]),   \* 99, 102
                 Overall_Signal |-> Overall_Signal,
                 Support_Level    |-> Num(MinRange(d.Low, n - 19, n)),   \* 129-133
                 Resistance_Level |-> Num(MaxRange(d.High, n - 19, n)),
                 Volatility |-> AnnualVolatility(close)],                \* 136-137
              df |-> withColumns, frame |-> locals]

InitTech ==
    /\ op = "get_technical_indicators"
    /\ pc = "call"
    /\ df \in PriceSeriesInputs
    /\ original = df
    /\ indicators = Idle /\ frame = Idle
    /\ risk_metrics = Idle /\ risk_rating = Idle
    /\ stock_info = Idle /\ metrics = Idle /\ scores = Idle
    /\ benchmark = Idle /\ analyzer = Idle /\ args = Idle /\ result = Idle
    /\ returned = <<>>

\* app.py 220: the call and its return; the call may be made again on the
\* table the call before it left
GetTechnicalIndicators ==
    /\ op = "get_technical_indicators" /\ Len(returned) < MaxCalls
    /\ LET r == get_technical_indicators(df)
       IN  /\ indicators' = r.indicators
           /\ df' = r.df
           /\ frame' = r.frame
           /\ returned' = Append(returned, r.indicators)
    /\ pc' = "done"
    /\ UNCHANGED <<op, riskVars, finVars, original, benchmark, analyzer, args, result>>

SpecTech == InitTech /\ [][GetTechnicalIndicators]_vars

TechDone == op = "get_technical_indicators" /\ pc = "done"

----------------------------------------------------------------------------
(* get_financial_metrics and calculate_fundamental_scores.  A snapshot      *)
(* value is carried in thousandths; a formatted string is a record          *)
(* [s, v, suffix]: s = "num" is the decimal text of v hundredths ('.2f') or *)
(* v tenths ('.1f') followed by suffix, s = "nan" / "inf" / "-inf" the text *)
(* Python prints for those floats, s = "N/A" the placeholder, s = "money" a *)
(* currency text, s = "text" any other text.  A call that raises yields     *)
(* s = "raise" with the exception's type as suffix.                         *)

Text(s, v, suffix) == [s |-> s, v |-> v, suffix |-> suffix]
Raise(e)           == Text("raise", 0, e)

\* thousandths to hundredths / tenths, to nearest (the enumerated values
\* are never exactly half way)
RoundTo(v, unit) == (v + (unit \div 2)) \div unit

\* f"{x:.2f}" (digits = 2) and f"{x:.1f}" (digits = 1)
FormatFixed(x, digits) ==
    CASE x.t = "num"  -> Text("num", RoundTo(x.v, IF digits = 2 THEN 10 ELSE 100), "")
      [] x.t = "nan"  -> Text("nan", 0, "")
      [] x.t = "inf"  -> Text("inf", 0, "")
      [] x.t = "ninf" -> Text("-inf", 0, "")
      [] x.t = "None" -> Raise("TypeError")
      [] OTHER        -> Raise("ValueError")

\* pd.isna(value) or value is None
IsNa(x) == x.t \in {"None", "nan"}

\* financial_metrics.py 43-47
format_percentage(value) ==
    CASE IsNa(value)      -> Text("N/A", 0, "")
      [] value.t = "num"  -> Text("num", value.v * 10, "%")
      [] value.t = "inf"  -> Text("inf", 0, "%")
      [] value.t = "ninf" -> Text("-inf", 0, "%")
      [] OTHER            -> Raise("ValueError")   \* '.2f' of a str

\* symbol.upper().endswith('.BK') over the enumerated symbols
EndsWithBK(symbol) == symbol \in {"PTT.BK", "ptt.bk"}

\* thai_stock_fetcher.py 274-276
is_thai_stock(symbol) == EndsWithBK(symbol) \/ Len(symbol) <= 4

\* financial_metrics.py 24-28
format_currency(value, currency) ==
    CASE IsNa(value)      -> Text("N/A", 0, "")
      [] value.t = "num"  -> Text("money", RoundTo(value.v, 10), currency)
      [] value.t = "inf"  -> Text("inf", 0, currency)
      [] value.t = "ninf" -> Text("-inf", 0, currency)
      [] OTHER            -> Raise("ValueError")

\* financial_metrics.py 30-41; a finite value of the model is below 1e9, so
\* only an infinite one takes the >= 1e12 branch
format_large_number(value, currency) ==
    CASE IsNa(value)      -> Text("N/A", 0, "")
      [] value.t = "str"  -> Raise("TypeError")     \* str >= float
      [] value.t = "inf"  -> Text("inf", 0, currency \o "T")
      [] value.t = "num" /\ value.v >= 1000000000
                          -> Text("money", RoundTo(value.v, 10000000), currency \o "M")
      [] OTHER            -> format_currency(value, currency)

\* the six groups: label, snapshot key, formatter
Groups ==
    [Valuation |-> <<
        <<"Market Cap", "marketCap", "large">>,
        <<"Enterprise Value", "enterpriseValue", "large">>,
        <<"P/E Ratio", "trailingPE", "2f">>,
        <<"Forward P/E", "forwardPE", "2f">>,
        <<"PEG Ratio", "pegRatio", "2f">>,
        <<"Price/Book", "priceToBook", "2f">>,
        <<"Price/Sales", "priceToSalesTrailing12Months", "2f">>,
        <<"EV/EBITDA", "enterpriseToEbitda", "2f">> >>,
     Profitability |-> <<
        <<"Gross Margin", "grossMargins", "pct">>,
        <<"Operating Margin", "operatingMargins", "pct">>,
        <<"Profit Margin", "profitMargins", "pct">>,
        <<"ROE", "returnOnEquity", "pct">>,
        <<"ROA", "returnOnAssets", "pct">>,
        <<"ROIC", "returnOnCapital", "pct">> >>,
     Growth |-> <<
        <<"Revenue Growth", "revenueGrowth", "pct">>,
        <<"Earnings Growth", "earningsGrowth", "pct">>,
        <<"EPS Growth", "earningsQuarterlyGrowth", "pct">>,
        <<"5Y Revenue CAGR", "revenuePerShare5Y", "pct">>,
        <<"5Y Earnings CAGR", "earningsPerShare5Y", "pct">> >>,
     Financial_Strength |-> <<
        <<"Current Ratio", "currentRatio", "2f">>,
        <<"Quick Ratio", "quickRatio", "2f">>,
        <<"Debt/Equity", "debtToEquity", "2f">>,
        <<"Interest Coverage", "interestCoverage", "2f">>,
        <<"Total Cash", "totalCash", "large">>,
        <<"Total Debt", "totalDebt", "large">> >>,
     Efficiency |-> <<
        <<"Asset Turnover", "assetTurnover", "2f">>,
        <<"Inventory Turnover", "inventoryTurnover", "2f">>,
        <<"Days Sales Outstanding", "daysSalesOutstanding", "1f">>,
        <<"Days Inventory", "daysInventory", "1f">>,
        <<"Operating Cycle", "operatingCycle", "1f">> >>,
     Dividend |-> <<
        <<"Dividend Rate", "dividendRate", "cur">>,
        <<"Dividend Yield", "dividendYield", "pct">>,
        <<"Payout Ratio", "payoutRatio", "pct">>,
        <<"5Y Avg Dividend Yield", "fiveYearAvgDividendYield", "pct">>,
        <<"Dividend Growth", "dividendGrowth", "pct">> >>]

GroupNames == DOMAIN Groups

Range(seq) == {seq[i] : i \in DOMAIN seq}

InfoKeys == {"symbol"} \cup UNION {{e[2] : e \in Range(Groups[g])} : g \in GroupNames}

\* stock_info.get(key) and stock_info.get(key, 0)
Get(info, key)     == IF info[key].t = "absent" THEN None ELSE info[key]
GetOr0(info, key)  == IF info[key].t = "absent" THEN Num(0) ELSE info[key]

\* one entry of a group mapping
Entry(info, currency, key, fmt) ==
    CASE fmt = "2f"    -> FormatFixed(GetOr0(info, key), 2)
      [] fmt = "1f"    -> FormatFixed(GetOr0(info, key), 1)
      [] fmt = "pct"   -> format_percentage(Get(info, key))
      [] fmt = "cur"   -> format_currency(Get(info, key), currency)
      [] fmt = "large" -> format_large_number(Get(info, key), currency)

\* financial_metrics.py 49-112: get_valuation_metrics ... get_dividend_metrics
GroupMetrics(info, currency, g) ==
    [label \in {e[1] : e \in Range(Groups[g])} |->
        LET e == CHOOSE e \in Range(Groups[g]) : e[1] = label
        IN  Entry(info, currency, e[2], e[3])]

\* float arithmetic with the IEEE specials
FAdd(a, b) ==
    CASE a.t = "nan" \/ b.t = "nan"     -> NaN
      [] a.t = "inf"  /\ b.t = "ninf"   -> NaN
      [] a.t = "ninf" /\ b.t = "inf"    -> NaN
      [] a.t \in {"inf", "ninf"}        -> a
      [] b.t \in {"inf", "ninf"}        -> b
      [] OTHER                          -> Num(a.v + b.v)

\* a times the non-zero constant k
FScale(a, k) ==
    CASE a.t = "nan"  -> NaN
      [] a.t = "inf"  -> IF k > 0 THEN PosInf ELSE NegInf
      [] a.t = "ninf" -> IF k > 0 THEN NegInf ELSE PosInf
      [] OTHER        -> Num(a.v * k)

\* scores are carried in 1/12000 of a point
Points(n) == Num(n * 12000)

Max0_Unclamped(x) == x

\* max(0, x): the first argument unless the second is greater
Max0(x) == IF PyGt(x, Points(0)) THEN x ELSE Points(0)

\* min(100, x): the first argument unless the second is smaller
Min100(x) == IF PyLt(x, Points(100)) THEN x ELSE Points(100)

ReplaceNA_Keep(text) == text

\* text.replace('N/A', '0') and text.replace('%', '')
ReplaceNA(text) == IF text.s = "N/A" THEN Text("num", 0, "") ELSE text
StripPct(text)  == IF text.suffix = "%" THEN [text EXCEPT !.suffix = ""] ELSE text

\* float(text): ValueError on anything that is not the text of a float
ParseFloat(text) ==
    CASE text.s = "num"  /\ text.suffix = "" -> Num(text.v)
      [] text.s = "nan"  /\ text.suffix = "" -> NaN
      [] text.s = "inf"  /\ text.suffix = "" -> PosInf
      [] text.s = "-inf" /\ text.suffix = "" -> NegInf
      [] OTHER                               -> [t |-> "raise", v |-> 0]

\* metrics[group][label]; a missing key raises KeyError
Lookup(m, group, label) ==
    IF group \in DOMAIN m /\ label \in DOMAIN m[group]
        THEN m[group][label] ELSE Raise("KeyError")

\* financial_metrics.py 202-208
FallbackScores ==
    [Valuation_Score |-> Points(50), Profitability_Score |-> Points(50),
     Growth_Score |-> Points(50), Financial_Health_Score |-> Points(50),
     Overall_Score |-> Points(50)]

OverallScore_EqualWeights(valuation_score, profitability_score, growth_score, health_score) ==
    Num((valuation_score.v + profitability_score.v + growth_score.v + health_score.v) \div 4)

\* financial_metrics.py 191-196: 0.3, 0.25, 0.25 and 0.2 of the four scores
OverallScore(valuation_score, profitability_score, growth_score, health_score) ==
    Num((3 * valuation_score.v) \div 10 + profitability_score.v \div 4
        + growth_score.v \div 4 + health_score.v \div 5)

\* the eight float(...) parses of financial_metrics.py 159-185, in hundredths
ParsedRatios(m) ==
    [pe_ratio        |-> ParseFloat(ReplaceNA(Lookup(m, "Valuation", "P/E Ratio"))),
     pb_ratio        |-> ParseFloat(ReplaceNA(Lookup(m, "Valuation", "Price/Book"))),
     profit_margin   |-> ParseFloat(ReplaceNA(StripPct(Lookup(m, "Profitability", "Profit Margin")))),
     roe             |-> ParseFloat(ReplaceNA(StripPct(Lookup(m, "Profitability", "ROE")))),
     revenue_growth  |-> ParseFloat(ReplaceNA(StripPct(Lookup(m, "Growth", "Revenue Growth")))),
     earnings_growth |-> ParseFloat(ReplaceNA(StripPct(Lookup(m, "Growth", "Earnings Growth")))),
     current_ratio   |-> ParseFloat(ReplaceNA(Lookup(m, "Financial_Strength", "Current Ratio"))),
     debt_equity     |-> ParseFloat(ReplaceNA(Lookup(m, "Financial_Strength", "Debt/Equity")))]

\* one of the parses raised (KeyError, ValueError)
ParseFailure(m) ==
    LET p == ParsedRatios(m) IN \E k \in DOMAIN p : p[k].t = "raise"

\* financial_metrics.py 145-208; one hundredth of a ratio weighs 120 score
\* units per unit of its coefficient
calculate_fundamental_scores(m) ==
    LET p == ParsedRatios(m)
        valuation_score ==                                                             \* 162-165
            IF PyGt(p.pe_ratio, Num(0))
                THEN Min100(Max0(FAdd(FScale(p.pe_ratio, 200), FScale(p.pb_ratio, 2000))))
                ELSE Points(50)
        profitability_score ==                                                         \* 173
            Min100(Max0(FAdd(FScale(p.profit_margin, 360), FScale(p.roe, 240))))
        growth_score ==                                                                \* 180
            Min100(Max0(FScale(FAdd(p.revenue_growth, p.earnings_growth), 300)))
        health_score ==                                                                \* 187
            Min100(Max0(FAdd(FAdd(FScale(p.current_ratio, 3600), FScale(p.debt_equity, -1200)),
                             Points(50))))
    IN  IF ParseFailure(m)
            THEN FallbackScores                                                        \* 200-208
        ELSE [Valuation_Score        |-> valuation_score,
              Profitability_Score    |-> profitability_score,
              Growth_Score           |-> growth_score,
              Financial_Health_Score |-> health_score,
              Overall_Score          |-> OverallScore(valuation_score, profitability_score,
                                                       growth_score, health_score)]

\* the empty mapping {}
EmptyDict == <<>>

\* financial_metrics.py 114-143 with FinancialMetricsCalculator.__init__
\* (12-22).  outcome "raise": the exception leaves get_financial_metrics (the
\* calculator is built outside the try block); outcome "return": value is
\* the returned mapping, {} when a formatter raised inside the try block.
get_financial_metrics(info) ==
    LET sym      == info["symbol"]
        symbol   == IF sym.t = "absent" THEN "" ELSE sym.s          \* 20
        currency == IF is_thai_stock(symbol) THEN "baht" ELSE "$"   \* 21-22
        groups   == [g \in GroupNames |-> GroupMetrics(info, currency, g)]  \* 127-134
        raised   == \E g \in GroupNames : \E l \in DOMAIN groups[g] : groups[g][l].s = "raise"
    IN  IF sym.t \notin {"absent", "str"}
            THEN [outcome |-> "raise", value |-> EmptyDict]         \* None.upper()
        ELSE IF raised
            THEN [outcome |-> "return", value |-> EmptyDict]        \* 141-143
        ELSE [outcome |-> "return",
              value |-> [k \in GroupNames \cup {"Scores"} |->
                           IF k = "Scores" THEN calculate_fundamental_scores(groups)  \* 137
                           ELSE groups[k]]]

\* the snapshot with no field at all
EmptyInfo == [k \in InfoKeys |-> Absent]

\* a snapshot with every field present and finite
TypicalInfo ==
    [k \in InfoKeys |->
        CASE k = "symbol"       -> Str("AAPL")
          [] k = "trailingPE"   -> Num(25000)
          [] k = "priceToBook"  -> Num(1500)
          [] k = "currentRatio" -> Num(1500)
          [] OTHER              -> Num(160)]

\* the fields the scores read (through their formatted text)
ScoreKeys ==
    {"trailingPE", "priceToBook", "profitMargins", "returnOnEquity",
     "revenueGrowth", "earningsGrowth", "currentRatio", "debtToEquity"}

\* field values in thousandths, the malformed ones included
FieldVals ==
    {Absent, None, Str("n/a"), NaN, PosInf, NegInf,
     Num(-5000), Num(-1), Num(0), Num(4), Num(160), Num(1500), Num(25000)}

ExtremeVals == {Absent, PosInf, NegInf, Num(-5000), Num(4), Num(25000)}

SymbolVals == {Absent, None, Str("AAPL"), Str("GOOGL"), Str("PTT.BK")}

FirstOverrides ==
    ({"symbol"} \X SymbolVals)
    \cup ((ScoreKeys \cup {"forwardPE", "marketCap", "dividendRate", "daysInventory"})
          \X FieldVals)

SecondOverrides == ScoreKeys \X ExtremeVals

StockInfoInputs ==
    {[k \in InfoKeys |-> IF k = o2[1] THEN o2[2]
                         ELSE IF k = o1[1] THEN o1[2] ELSE base[k]] :
        base \in {EmptyInfo, TypicalInfo}, o1 \in FirstOverrides, o2 \in SecondOverrides}
    \cup {[k \in InfoKeys |-> IF k = o1[1] THEN o1[2] ELSE base[k]] :
        base \in {EmptyInfo, TypicalInfo}, o1 \in FirstOverrides}

\* the six groups of a typical snapshot, before the scores are added
TypicalGroups == [g \in GroupNames |-> GroupMetrics(TypicalInfo, "$", g)]

ScoreLabels ==
    {<<"Valuation", "P/E Ratio">>, <<"Valuation", "Price/Book">>,
     <<"Profitability", "Profit Margin">>, <<"Profitability", "ROE">>,
     <<"Growth", "Revenue Growth">>, <<"Growth", "Earnings Growth">>,
     <<"Financial_Strength", "Current Ratio">>, <<"Financial_Strength", "Debt/Equity">>}

ForeignTexts ==
    {Text("N/A", 0, ""), Text("text", 0, ""), Text("num", 1234, "%"),
     Text("num", 1234, ""), Text("money", 1234, "$")}

\* mappings handed to calculate_fundamental_scores directly: the typical
\* groups, with one group missing, or with one entry replaced
MetricsInputs ==
    {TypicalGroups}
    \cup {[g \in GroupNames \ {gone} |-> TypicalGroups[g]] :
             gone \in {"Valuation", "Profitability", "Growth", "Financial_Strength"}}
    \cup {[TypicalGroups EXCEPT ![sl[1]][sl[2]] = t] : sl \in ScoreLabels, t \in ForeignTexts}

InitFin ==
    /\ pc = "call"
    /\ \/ /\ op = "get_financial_metrics"
          /\ stock_info \in StockInfoInputs
          /\ metrics = Idle
       \/ /\ op = "calculate_fundamental_scores"
          /\ stock_info = Idle
          /\ metrics \in MetricsInputs
    /\ scores = Idle
    /\ risk_metrics = Idle /\ risk_rating = Idle
    /\ df = Idle /\ indicators = Idle /\ frame = Idle
    /\ CallIdle

\* a call of get_financial_metrics(stock_info)
GetFinancialMetrics ==
    /\ op = "get_financial_metrics" /\ pc = "call"
    /\ LET r == get_financial_metrics(stock_info)
       IN  /\ pc' = IF r.outcome = "raise" THEN "raised" ELSE "done"
           /\ metrics' = r.value
           /\ scores' = IF "Scores" \in DOMAIN r.value THEN r.value["Scores"] ELSE Idle
    /\ UNCHANGED <<op, stock_info, riskVars, techVars, callVars>>

\* a call of calculate_fundamental_scores(metrics)
CalculateFundamentalScores ==
    /\ op = "calculate_fundamental_scores" /\ pc = "call"
    /\ pc' = "done"
    /\ scores' = calculate_fundamental_scores(metrics)
    /\ UNCHANGED <<op, stock_info, metrics, riskVars, techVars, callVars>>

NextFin == GetFinancialMetrics \/ CalculateFundamentalScores

SpecFin == InitFin /\ [][NextFin]_vars

\* get_financial_metrics has returned
FinDone == op = "get_financial_metrics" /\ pc = "done"

\* calculate_fundamental_scores has produced scores, called either way
ScoresDone ==
    \/ FinDone /\ "Scores" \in DOMAIN metrics
    \/ op = "calculate_fundamental_scores" /\ pc = "done"

----------------------------------------------------------------------------
(* RiskAnalyzer.  Closes are integers in thousandths, returns and the       *)
(* metrics derived from them are carried in 1e-4 (basis points) unless a    *)
(* definition says otherwise, divisions rounding down.  A pandas column is  *)
(* a sequence of floats, NaN where pandas has a missing value.              *)

\* series.pct_change(): NaN for the first bar
pct_change(close) ==
    [i \in DOMAIN close |->
        IF i = 1 THEN NaN ELSE Num(((close[i] - close[i - 1]) * 10000) \div close[i - 1])]

\* series.dropna(), as plain numbers
dropna(x) ==
    LET kept == SelectSeq(x, LAMBDA e : e.t = "num")
    IN  [i \in DOMAIN kept |-> kept[i].v]

Sum(s) == SumRange(s, 1, Len(s))

\* n * (s[i] - mean(s)) for every i: the deviations from the mean, times n
Deviations(s) == [i \in DOMAIN s |-> Len(s) * s[i] - Sum(s)]

SumSquares(s) == Sum([i \in DOMAIN s |-> s[i] * s[i]])

\* series.mean(), NaN values skipped; NaN when nothing is left
mean(x) ==
    LET r == dropna(x)
    IN  IF Len(r) = 0 THEN NaN ELSE Num(Sum(r) \div Len(r))

\* series.std(): sample standard deviation (ddof = 1), NaN below 2 values
std(x) ==
    LET r == dropna(x)
        n == Len(r)
    IN  IF n < 2 THEN NaN
        ELSE Num(ISqrt(SumSquares(Deviations(r)) \div (n - 1)) \div n)

\* a / b on numpy floats, the quotient carried with `scale` units per one:
\* a zero divisor gives inf, -inf or nan (a warning, no exception)
FDiv(a, b, scale) ==
    CASE a.t = "nan" \/ b.t = "nan"                      -> NaN
      [] a.t \in {"inf", "ninf"} /\ b.t \in {"inf", "ninf"} -> NaN
      [] b.t \in {"inf", "ninf"}                         -> Num(0)
      [] a.t = "inf"                                     -> IF b.v >= 0 THEN PosInf ELSE NegInf
      [] a.t = "ninf"                                    -> IF b.v >= 0 THEN NegInf ELSE PosInf
      [] b.v = 0 /\ a.v > 0                              -> PosInf
      [] b.v = 0 /\ a.v < 0                              -> NegInf
      [] b.v = 0                                         -> NaN
      [] OTHER                                           -> Num((a.v * scale) \div b.v)

\* x * np.sqrt(252)
Annualize(x) == IF x.t = "num" THEN Num((x.v * 15875) \div 1000) ELSE x

\* risk.py 48, 53: mean * 252 - risk_free_rate, the default rate 0.02
ExcessReturns(returns) ==
    LET r == dropna(returns)
    IN  IF Len(r) = 0 THEN NaN ELSE Num((252 * Sum(r)) \div Len(r) - 200)

\* risk.py 89-92, target_return = 0
calculate_downside_deviation(returns) ==
    LET negative_returns == SelectSeq(dropna(returns), LAMBDA v : v < 0)
    IN  IF Len(negative_returns) = 0 THEN NaN
        ELSE Num(ISqrt(SumSquares(negative_returns) \div Len(negative_returns)))

\* risk.py 46-49, in hundredths
calculate_sharpe_ratio(returns) ==
    FDiv(ExcessReturns(returns), Annualize(std(returns)), 100)

\* risk.py 51-55, in hundredths
calculate_sortino_ratio(returns) ==
    FDiv(ExcessReturns(returns), Annualize(calculate_downside_deviation(returns)), 100)

\* (1 + Returns).cumprod(): cumprod skips the leading NaN and the product of
\* the 1 + r telescopes to close[i] / close[1]
CumulativeReturns(close) ==
    [i \in DOMAIN close |-> IF i = 1 THEN NaN ELSE Num((close[i] * 10000) \div close[1])]

\* risk.py 57-62: the running maximum starts at the first defined cumulative
\* return, that of the second bar
calculate_max_drawdown(close) ==
    LET n == Len(close)
        cumulative_returns == CumulativeReturns(close)
        cum == [i \in 1..(n - 1) |-> cumulative_returns[i + 1].v]
        drawdowns == [i \in 1..(n - 1) |-> (cum[i] * 10000) \div MaxRange(cum, 1, i) - 10000]
    IN  IF n < 2 THEN NaN ELSE Num(MinRange(drawdowns, 1, n - 1))

\* the k-th smallest of the numbers s[1..Len(s)]
Kth(s, k) ==
    CHOOSE v \in {s[i] : i \in DOMAIN s} :
        /\ Cardinality({i \in DOMAIN s : s[i] < v}) < k
        /\ k <= Cardinality({i \in DOMAIN s : s[i] <= v})

\* np.percentile(x, q): NaN as soon as x holds a NaN (numpy does not skip
\* them); otherwise linear interpolation between the order statistics
\* around position (len - 1) * q / 100
percentile(x, q) ==
    LET m == Len(x)
        r == dropna(x)
        h == (m - 1) * q
        j == h \div 100
    IN  IF \E i \in DOMAIN x : x[i].t = "nan" THEN NaN
        ELSE IF j + 1 >= m THEN Num(Kth(r, m))
        ELSE Num(Kth(r, j + 1) + ((Kth(r, j + 2) - Kth(r, j + 1)) * (h % 100)) \div 100)

\* risk.py 64-66 with confidence_level = 0.95
calculate_var(returns) == percentile(returns, 5)

\* risk.py 68-71: the mean of the returns at or below the VaR
calculate_cvar(returns) ==
    LET var == calculate_var(returns)
    IN  mean(SelectSeq(returns, LAMBDA e : PyLe(e, var)))

\* sum of the products of the deviations of a and b (each times n)
CoDeviation(a, b) ==
    Sum([i \in DOMAIN a |-> Deviations(a)[i] * Deviations(b)[i]])

\* the benchmark table yf.download returned, or the fact that it raised
Unavailable == [t |-> "raise", v |-> 0]
Downloaded(table) == [t |-> "table", v |-> 0, table |-> table]

\* np.cov(a, b)[0, 1] / np.var(b) for two equally long arrays, in
\* hundredths; the returns enter in 1e-3.  np.cov divides by n - 1 and
\* np.var by n; a division by zero gives nan with a warning, no exception.
CovOverVar(a, b) ==
    LET n  == Len(a)
        x  == [i \in DOMAIN a |-> a[i] \div 10]
        y  == [i \in DOMAIN b |-> b[i] \div 10]
        co == CoDeviation(x, y)
        vr == SumSquares(Deviations(y))
    IN  IF n < 2 \/ vr = 0 THEN NaN
        ELSE Num((100 * n * co) \div ((n - 1) * vr))

\* risk.py 73-87: None when the download raises and when np.cov raises
\* ValueError on arrays of different lengths
calculate_beta(returns, bench) ==
    LET a == dropna(returns)                                             \* 83
        b == IF bench.t = "raise" THEN <<>> ELSE dropna(pct_change(bench.table.Close))  \* 82
    IN  IF bench.t = "raise" \/ Len(a) # Len(b) THEN None                \* 86-87
        ELSE CovOverVar(a, b)                                            \* 83-85

\* the deviations from the mean in units of the square root of their sum of
\* squares, `scale` units per one
Standardized(r, scale) ==
    LET d == Deviations(r)
        root == ISqrt(SumSquares(d))
    IN  [i \in DOMAIN d |-> (d[i] * scale) \div root]

\* series.skew() in tenths (to about a tenth): NaN below 3 values, 0 for a
\* constant series, else n * sqrt(n - 1) / (n - 2) * m3 / m2 ** 1.5 with the
\* sums m2, m3 of the squared and cubed deviations
skew(x) ==
    LET r == dropna(x)
        n == Len(r)
        z == Standardized(r, 500)
        cubes == Sum([i \in DOMAIN z |-> z[i] * z[i] * z[i]])
    IN  IF n < 3 THEN NaN
        ELSE IF SumSquares(Deviations(r)) = 0 THEN Num(0)
        ELSE Num((n * ISqrt(10000 * (n - 1)) * (cubes \div 1000)) \div ((n - 2) * 1250000))

\* series.kurtosis() in tenths (to about a tenth): NaN below 4 values, 0 for
\* a constant series, else
\* n (n + 1) (n - 1) m4 / ((n - 2) (n - 3) m2 ** 2) - 3 (n - 1) ** 2 / ((n - 2) (n - 3))
kurtosis(x) ==
    LET r == dropna(x)
        n == Len(r)
        z == Standardized(r, 100)
        fourths == Sum([i \in DOMAIN z |-> z[i] * z[i] * z[i] * z[i]])
    IN  IF n < 4 THEN NaN
        ELSE IF SumSquares(Deviations(r)) = 0 THEN Num(0)
        ELSE Num(((fourths \div 100) * n * (n + 1) * (n - 1)) \div ((n - 2) * (n - 3) * 100000)
                 - (30 * (n - 1) * (n - 1)) \div ((n - 2) * (n - 3)))

\* the eleven keys of risk_metrics in the order they are assigned
RiskMetricKeys ==
    <<"daily_volatility", "annual_volatility", "sharpe_ratio", "sortino_ratio",
      "max_drawdown", "var_95", "cvar_95", "beta", "skewness", "kurtosis",
      "downside_deviation">>

calculate_risk_metrics_BetaPropagates(d, bench) ==
    LET returns == pct_change(d.Close)
        before == [daily_volatility |-> std(returns),
                   annual_volatility |-> Annualize(std(returns)),
                   sharpe_ratio |-> calculate_sharpe_ratio(returns),
                   sortino_ratio |-> calculate_sortino_ratio(returns),
                   max_drawdown |-> calculate_max_drawdown(d.Close),
                   var_95 |-> calculate_var(returns), cvar_95 |-> calculate_cvar(returns)]
        after == [beta |-> calculate_beta(returns, bench), skewness |-> skew(returns),
                  kurtosis |-> kurtosis(returns),
                  downside_deviation |-> calculate_downside_deviation(returns)]
    IN  [risk_metrics |-> IF bench.t = "raise" THEN before ELSE before @@ after,
         df |-> ("Returns" :> returns) @@ [d EXCEPT !.columns = @ \cup {"Returns"}]]

\* risk.py 20, 26-44: self.df is the caller's table, so the Returns column
\* is assigned into it
calculate_risk_metrics(d, bench) ==
    LET returns == pct_change(d.Close)                                   \* 29
        daily_volatility == std(returns)                                 \* 32
    IN  [risk_metrics |->
            [daily_volatility   |-> daily_volatility,
             annual_volatility  |-> Annualize(daily_volatility),         \* 33
             sharpe_ratio       |-> calculate_sharpe_ratio(returns),     \* 34
             sortino_ratio      |-> calculate_sortino_ratio(returns),    \* 35
             max_drawdown       |-> calculate_max_drawdown(d.Close),     \* 36
             var_95             |-> calculate_var(returns),              \* 37
             cvar_95            |-> calculate_cvar(returns),             \* 38
             beta               |-> calculate_beta(returns, bench),      \* 39
             skewness           |-> skew(returns),                       \* 42
             kurtosis           |-> kurtosis(returns),                   \* 43
             downside_deviation |-> calculate_downside_deviation(returns)],  \* 44
         df |-> ("Returns" :> returns) @@ [d EXCEPT !.columns = @ \cup {"Returns"}]]

RiskCloseVals == {90000, 100000, 110000}

\* close series of one to four bars, and five-bar series over two prices
RiskCloseInputs ==
    UNION {[1..n -> RiskCloseVals] : n \in 1..4} \cup [1..5 -> {100000, 110000}]

RiskTableInputs == {Table(c, [i \in DOMAIN c |-> 1000]) : c \in RiskCloseInputs}

\* an m-bar benchmark close series
BenchmarkSeries(m, shape) ==
    [i \in 1..m |->
        CASE shape = "flat"   -> 100000
          [] shape = "zigzag" -> IF i % 2 = 1 THEN 100000 ELSE 110000
          [] shape = "step"   -> IF i = 1 THEN 100000 ELSE 110000]

\* what yf.download can give for a table of n bars: an exception, or a table
\* with as many bars or one bar less (the end date is exclusive)
BenchmarkOutcomes(n) ==
    {Unavailable}
    \cup {Downloaded(Table(BenchmarkSeries(m, shape), [i \in 1..m |-> 1000])) :
            m \in {n - 1, n}, shape \in {"flat", "zigzag", "step"}}

InitAnalyzer ==
    /\ op = "RiskAnalyzer"
    /\ pc = "call"
    /\ df \in RiskTableInputs
    /\ original = df
    /\ risk_metrics = Idle /\ risk_rating = Idle
    /\ indicators = Idle /\ frame = Idle
    /\ stock_info = Idle /\ metrics = Idle /\ scores = Idle
    /\ benchmark = Idle /\ analyzer = Idle /\ args = Idle /\ result = Idle
    /\ returned = <<>>

\* app.py: RiskAnalyzer(df, stock_info), risk.py 11-24; the constructor
\* computes the metrics, and may be called again on the same table
RiskAnalyzerInit ==
    /\ op = "RiskAnalyzer" /\ Len(returned) < MaxCalls
    /\ \E bench \in BenchmarkOutcomes(Len(df.Close)) :
          LET r == calculate_risk_metrics(df, bench)
          IN  /\ benchmark' = bench
              /\ risk_metrics' = r.risk_metrics
              /\ df' = r.df
              /\ returned' = Append(returned, r.risk_metrics)
    /\ pc' = "done"
    /\ UNCHANGED <<op, risk_rating, indicators, frame, finVars, original, analyzer, args, result>>

SpecAnalyzer == InitAnalyzer /\ [][RiskAnalyzerInit]_vars

\* a RiskAnalyzer has been constructed
AnalyzerDone == op = "RiskAnalyzer" /\ pc = "done"

----------------------------------------------------------------------------
(* TechnicalCalculations (calculations.py).  A price series is a sequence   *)
(* of integers in thousandths, a returned series a sequence of floats.      *)

\* series.rolling(window=period).mean(): min_periods defaults to the window
RollingMean(x, period) ==
    [i \in DOMAIN x |->
        IF i < period THEN NaN ELSE Num(SumRange(x, i - period + 1, i) \div period)]

calculate_sma_MinPeriods1(prices, period) ==
    [i \in DOMAIN prices |->
        LET lo == IF i < period THEN 1 ELSE i - period + 1
        IN  Num(SumRange(prices, lo, i) \div (i - lo + 1))]

\* calculations.py 84-87
calculate_sma(prices, period) == RollingMean(prices, period)

\* prices.diff(), NaN for the first bar
diff(prices) ==
    [i \in DOMAIN prices |-> IF i = 1 THEN NaN ELSE Num(prices[i] - prices[i - 1])]

RsiFromRs_NoOne(rs) ==
    CASE rs.t = "nan" -> NaN
      [] rs.t = "inf" -> Num(1000)
      [] rs.v = 0     -> NegInf
      [] OTHER        -> Num(1000 - 10000000 \div rs.v)

\* 100 - (100 / (1 + rs)) in tenths, rs in 1e-4
RsiFromRs(rs) ==
    CASE rs.t = "nan" -> NaN
      [] rs.t = "inf" -> Num(1000)
      [] OTHER        -> Num(1000 - 10000000 \div (10000 + rs.v))

\* calculations.py 130-138, in tenths: delta.where(cond, 0) puts 0 wherever
\* the condition is False, the NaN of the first bar included
calculate_rsi(prices, period) ==
    LET delta == diff(prices)                                             \* 133
        ups   == [i \in DOMAIN delta |-> IF PyGt(delta[i], Num(0)) THEN delta[i].v ELSE 0]
        downs == [i \in DOMAIN delta |-> IF PyLt(delta[i], Num(0)) THEN -delta[i].v ELSE 0]
        gain  == RollingMean(ups, period)                                 \* 134
        loss  == RollingMean(downs, period)                               \* 135
    IN  [i \in DOMAIN prices |-> RsiFromRs(FDiv(gain[i], loss[i], 10000))]  \* 137-138

\* the longest window tried
MaxPeriod == 5

PriceInputs == UNION {[1..n -> RiskCloseVals] : n \in 1..5}

InitCalc ==
    /\ op \in {"calculate_sma", "calculate_rsi"}
    /\ pc = "call"
    /\ args \in [prices : PriceInputs, period : 1..MaxPeriod]
    /\ result = Idle
    /\ risk_metrics = Idle /\ risk_rating = Idle
    /\ df = Idle /\ indicators = Idle /\ frame = Idle
    /\ stock_info = Idle /\ metrics = Idle /\ scores = Idle
    /\ original = Idle /\ benchmark = Idle /\ analyzer = Idle /\ returned = <<>>

\* a call of TechnicalCalculations.calculate_sma(prices, period)
CalculateSma ==
    /\ op = "calculate_sma" /\ pc = "call"
    /\ result' = calculate_sma(args.prices, args.period)
    /\ pc' = "done"
    /\ UNCHANGED <<op, riskVars, techVars, finVars, original, benchmark, analyzer, args, returned>>

\* a call of TechnicalCalculations.calculate_rsi(prices, period)
CalculateRsi ==
    /\ op = "calculate_rsi" /\ pc = "call"
    /\ result' = calculate_rsi(args.prices, args.period)
    /\ pc' = "done"
    /\ UNCHANGED <<op, riskVars, techVars, finVars, original, benchmark, analyzer, args, returned>>

NextCalc == CalculateSma \/ CalculateRsi

SpecCalc == InitCalc /\ [][NextCalc]_vars

SmaDone == op = "calculate_sma" /\ pc = "done"
RsiDone == op = "calculate_rsi" /\ pc = "done"

----------------------------------------------------------------------------
(* calculate_all_indicators (calculations.py).  Columns of prices are       *)
(* sequences of integers in thousandths, derived columns sequences of       *)
(* floats in the same unit unless said otherwise.                           *)

\* series.rolling(window=period).std(): sample standard deviation of the
\* window (NaN for a window of one); deviations carried in 16 thousandths
RollingStd(x, period) ==
    [i \in DOMAIN x |->
        IF i < period \/ period < 2 THEN NaN
        ELSE LET m  == SumRange(x, i - period + 1, i) \div period
                 sq == [j \in 1..period |->
                          ((x[i - period + j] - m) \div 16) * ((x[i - period + j] - m) \div 16)]
             IN  Num(16 * ISqrt(SumRange(sq, 1, period) \div (period - 1)))]

\* rolling(window=period).mean() of a float column: NaN while the window is
\* incomplete or holds a NaN
RollingMeanF(x, period) ==
    [i \in DOMAIN x |->
        IF i < period \/ \E j \in (i - period + 1)..i : x[j].t # "num" THEN NaN
        ELSE Num(SumRange([j \in DOMAIN x |-> x[j].v], i - period + 1, i) \div period)]

\* calculations.py 94-108
calculate_bollinger_bands(prices, period, std_dev) ==
    LET middle_band == RollingMean(prices, period)                        \* 101
        sd          == RollingStd(prices, period)                         \* 102
    IN  [upper  |-> [i \in DOMAIN prices |-> FAdd(middle_band[i], FScale(sd[i], std_dev))],
         middle |-> middle_band,
         lower  |-> [i \in DOMAIN prices |-> FAdd(middle_band[i], FScale(sd[i], -std_dev))]]

\* calculations.py 110-128: ewm(span, adjust=False) has alpha = 2 / (span + 1)
\* and is defined from the first bar
calculate_macd(prices, fast_period, slow_period, signal_period) ==
    LET fast_ema    == Ewm(prices, 2, fast_period + 1)                    \* 118
        slow_ema    == Ewm(prices, 2, slow_period + 1)                    \* 119
        macd_line   == [i \in DOMAIN prices |-> fast_ema[i] - slow_ema[i]]  \* 120
        signal_line == Ewm(macd_line, 2, signal_period + 1)               \* 121
    IN  [macd      |-> [i \in DOMAIN prices |-> Num(macd_line[i])],
         signal    |-> [i \in DOMAIN prices |-> Num(signal_line[i])],
         histogram |-> [i \in DOMAIN prices |-> Num(macd_line[i] - signal_line[i])]]  \* 122

\* calculations.py 140-155, %K and %D in tenths
calculate_stochastic(high, low, close, k_period, d_period) ==
    LET k_line == [i \in DOMAIN close |->
                     IF i < k_period THEN NaN
                     ELSE LET lowest_low   == MinRange(low, i - k_period + 1, i)    \* 149
                              highest_high == MaxRange(high, i - k_period + 1, i)   \* 150
                          IN  FDiv(Num(close[i] - lowest_low),
                                   Num(highest_high - lowest_low), 1000)]           \* 152
    IN  [k |-> k_line, d |-> RollingMeanF(k_line, d_period)]                        \* 153

Abs(x) == IF x < 0 THEN -x ELSE x

Max3(a, b, c) == IF a >= b /\ a >= c THEN a ELSE IF b >= c THEN b ELSE c

\* calculations.py 157-169: close.shift() is NaN on the first bar and
\* max(axis=1) skips NaN, so the first true range is high - low
calculate_atr(high, low, close, period) ==
    LET tr == [i \in DOMAIN close |->
                 IF i = 1 THEN high[1] - low[1]
                 ELSE Max3(high[i] - low[i], Abs(high[i] - close[i - 1]),
                           Abs(low[i] - close[i - 1]))]
    IN  RollingMean(tr, period)

Sign(x) == IF x > 0 THEN 1 ELSE IF x < 0 THEN -1 ELSE 0

\* calculations.py 214-217: the first product is NaN, which cumsum leaves in
\* place and skips
calculate_obv(close, volume) ==
    LET signed == [i \in DOMAIN close |->
                     IF i = 1 THEN 0 ELSE Sign(close[i] - close[i - 1]) * volume[i]]
    IN  [i \in DOMAIN close |-> IF i = 1 THEN NaN ELSE Num(SumRange(signed, 2, i))]

\* (high + low + close) / 3
TypicalPrice(high, low, close) ==
    [i \in DOMAIN close |-> (high[i] + low[i] + close[i]) \div 3]

calculate_vwap_PerBar(high, low, close, volume) ==
    LET typical_price == TypicalPrice(high, low, close)
    IN  [i \in DOMAIN close |->
            FDiv(Num(typical_price[i] * volume[i]), Num(volume[i]), 1)]

\* calculations.py 219-228
calculate_vwap(high, low, close, volume) ==
    LET typical_price == TypicalPrice(high, low, close)                   \* 227
        pv            == [i \in DOMAIN close |-> typical_price[i] * volume[i]]
    IN  [i \in DOMAIN close |->
            FDiv(Num(SumRange(pv, 1, i)), Num(SumRange(volume, 1, i)), 1)]  \* 228

\* calculations.py 230-249, in tenths; money flow carried in thousands
calculate_mfi(high, low, close, volume, period) ==
    LET typical_price == TypicalPrice(high, low, close)                   \* 239
        money_flow    == [i \in DOMAIN close |-> (typical_price[i] * volume[i]) \div 1000]
        positive_flow == [i \in DOMAIN close |->                          \* 242
                            IF i > 1 /\ typical_price[i] > typical_price[i - 1]
                               THEN money_flow[i] ELSE 0]
        negative_flow == [i \in DOMAIN close |->                          \* 243
                            IF i > 1 /\ typical_price[i] < typical_price[i - 1]
                               THEN money_flow[i] ELSE 0]
        positive_mf   == [i \in DOMAIN close |->                          \* 245
                            IF i < period THEN NaN
                            ELSE Num(SumRange(positive_flow, i - period + 1, i))]
        negative_mf   == [i \in DOMAIN close |->                          \* 246
                            IF i < period THEN NaN
                            ELSE Num(SumRange(negative_flow, i - period + 1, i))]
    IN  [i \in DOMAIN close |->
            RsiFromRs(FDiv(positive_mf[i], negative_mf[i], 10000))]       \* 248

IndicatorColumns ==
    {"SMA_20", "SMA_50", "SMA_200", "BB_upper", "BB_middle", "BB_lower",
     "MACD", "MACD_signal", "MACD_hist", "RSI", "Stoch_K", "Stoch_D",
     "ATR", "OBV", "VWAP", "MFI"}

\* calculations.py 251-289: the table returned, a copy of d (253) with the
\* indicator columns
calculate_all_indicators(d) ==
    LET bb    == calculate_bollinger_bands(d.Close, 20, 2)                \* 261
        macd  == calculate_macd(d.Close, 12, 26, 9)                       \* 267
        stoch == calculate_stochastic(d.High, d.Low, d.Close, 14, 3)      \* 276
    IN  [SMA_20      |-> calculate_sma(d.Close, 20),                      \* 256-257
         SMA_50      |-> calculate_sma(d.Close, 50),
         SMA_200     |-> calculate_sma(d.Close, 200),
         BB_upper    |-> bb.upper,                                        \* 262-264
         BB_middle   |-> bb.middle,
         BB_lower    |-> bb.lower,
         MACD        |-> macd.macd,                                       \* 268-270
         MACD_signal |-> macd.signal,
         MACD_hist   |-> macd.histogram,
         RSI         |-> calculate_rsi(d.Close, 14),                      \* 273
         Stoch_K     |-> stoch.k,                                         \* 277-278
         Stoch_D     |-> stoch.d,
         ATR         |-> calculate_atr(d.High, d.Low, d.Close, 14),       \* 281
         OBV         |-> calculate_obv(d.Close, d.Volume),                \* 284
         VWAP        |-> calculate_vwap(d.High, d.Low, d.Close, d.Volume),  \* 285-286
         MFI         |-> calculate_mfi(d.High, d.Low, d.Close, d.Volume, 14)]  \* 287-288
        @@ [d EXCEPT !.columns = @ \cup IndicatorColumns]

InitAllIndicators ==
    /\ op = "calculate_all_indicators"
    /\ pc = "call"
    /\ df \in RiskTableInputs
    /\ original = df
    /\ returned = <<>>
    /\ result = Idle /\ args = Idle /\ benchmark = Idle /\ analyzer = Idle
    /\ risk_metrics = Idle /\ risk_rating = Idle
    /\ indicators = Idle /\ frame = Idle
    /\ stock_info = Idle /\ metrics = Idle /\ scores = Idle

\* a call of calculate_all_indicators(df), possibly again on the same table;
\* the columns are assigned to the copy made at 253, never to the argument
CalculateAllIndicators ==
    /\ op = "calculate_all_indicators" /\ Len(returned) < MaxCalls
    /\ result' = calculate_all_indicators(df)
    /\ df' = df
    /\ returned' = Append(returned, result')
    /\ pc' = "done"
    /\ UNCHANGED <<op, riskVars, indicators, frame, finVars, original, benchmark, analyzer, args>>

AllIndicatorsDone == op = "calculate_all_indicators" /\ pc = "done"

----------------------------------------------------------------------------
(* RiskCalculations.calculate_risk_metrics (calculations.py).  Returns and  *)
(* the metrics are in basis points, as in RiskAnalyzer.                     *)

\* series.expanding().max(): the greatest value so far, NaN values skipped
ExpandingMax(x) ==
    [i \in DOMAIN x |->
        LET seen == {x[j].v : j \in {k \in 1..i : x[k].t = "num"}}
        IN  IF seen = {} THEN NaN ELSE Num(CHOOSE m \in seen : \A v \in seen : v <= m)]

\* series.min(): the least value, NaN values skipped, NaN when nothing is left
SeriesMin(x) ==
    LET nums == {x[i].v : i \in {k \in DOMAIN x : x[k].t = "num"}}
    IN  IF \E i \in DOMAIN x : x[i].t = "ninf" THEN NegInf
        ELSE IF nums # {} THEN Num(CHOOSE m \in nums : \A v \in nums : m <= v)
        ELSE IF \E i \in DOMAIN x : x[i].t = "inf" THEN PosInf
        ELSE NaN

\* calculations.py 52-57, FinancialCalculations.calculate_max_drawdown: the
\* series it is given is taken as prices
prices_max_drawdown(prices) ==
    LET rolling_max == ExpandingMax(prices)                               \* 55
        drawdowns   == [i \in DOMAIN prices |->                           \* 56
                          FAdd(FDiv(prices[i], rolling_max[i], 10000), Num(-10000))]
    IN  SeriesMin(drawdowns)                                              \* 57

\* calculations.py 200-209, RiskCalculations.calculate_risk_metrics
returns_risk_metrics(returns) ==
    [volatility         |-> Annualize(std(returns)),                      \* 203, 26-28
     var_95             |-> calculate_var(returns),                       \* 204, 175-180
     cvar_95            |-> calculate_cvar(returns),                      \* 205, 182-189
     max_drawdown       |-> prices_max_drawdown(returns),                 \* 206
     downside_deviation |-> calculate_downside_deviation(returns)]        \* 207, 191-198

\* the returns of a close series, as FinancialCalculations.calculate_returns
\* gives them (15-18, the first one missing) or with the missing one dropped
ReturnInputs ==
    {[close |-> c, returns |-> pct_change(c)] : c \in {s \in RiskCloseInputs : Len(s) >= 2}}
    \cup {[close |-> c, returns |-> [i \in 1..(Len(c) - 1) |-> pct_change(c)[i + 1]]] :
            c \in {s \in RiskCloseInputs : Len(s) >= 2}}

InitReturns ==
    /\ op = "RiskCalculations.calculate_risk_metrics"
    /\ pc = "call"
    /\ args \in ReturnInputs
    /\ result = Idle
    /\ risk_metrics = Idle /\ risk_rating = Idle
    /\ df = Idle /\ indicators = Idle /\ frame = Idle
    /\ stock_info = Idle /\ metrics = Idle /\ scores = Idle
    /\ original = Idle /\ benchmark = Idle /\ analyzer = Idle /\ returned = <<>>

\* a call of RiskCalculations.calculate_risk_metrics(returns)
CalculateRiskMetrics ==
    /\ op = "RiskCalculations.calculate_risk_metrics" /\ pc = "call"
    /\ result' = returns_risk_metrics(args.returns)
    /\ pc' = "done"
    /\ UNCHANGED <<op, riskVars, techVars, finVars, original, benchmark, analyzer, args, returned>>

SpecReturns == InitReturns /\ [][CalculateRiskMetrics]_vars

ReturnsDone == op = "RiskCalculations.calculate_risk_metrics" /\ pc = "done"

----------------------------------------------------------------------------
(* The volume indicators on their own: VolumeCalculations.calculate_vwap    *)
(* and calculate_mfi (calculations.py) and the VWAP column of               *)
(* TechnicalAnalysis._calculate_volume_indicators (technical.py).           *)

\* technical.py 110: (Close * Volume).cumsum() / Volume.cumsum()
AnalyzerVwap(close, volume) ==
    LET pv == [i \in DOMAIN close |-> close[i] * volume[i]]
    IN  [i \in DOMAIN close |->
            FDiv(Num(SumRange(pv, 1, i)), Num(SumRange(volume, 1, i)), 1)]

\* the most bars of a series of the volume indicators
MaxBars == 3

\* one bar: a close, how far the high is above it and the low below it, and
\* the volume
BarInputs == [Close : {99000, 102000}, up : {0, 3000}, down : {3000}, Volume : {0, 1000, 2000}]

\* the OHLCV columns of a sequence of bars, with the window of the MFI
VolumeArgs(bars, period) ==
    [high   |-> [i \in DOMAIN bars |-> bars[i].Close + bars[i].up],
     low    |-> [i \in DOMAIN bars |-> bars[i].Close - bars[i].down],
     close  |-> [i \in DOMAIN bars |-> bars[i].Close],
     volume |-> [i \in DOMAIN bars |-> bars[i].Volume],
     period |-> period]

VolumeInputs ==
    {VolumeArgs(bars, period) :
        bars \in UNION {[1..n -> BarInputs] : n \in 1..MaxBars}, period \in 1..2}

InitVolume ==
    /\ op \in {"calculate_vwap", "calculate_mfi", "_calculate_volume_indicators"}
    /\ pc = "call"
    /\ args \in VolumeInputs
    /\ result = Idle
    /\ risk_metrics = Idle /\ risk_rating = Idle
    /\ df = Idle /\ indicators = Idle /\ frame = Idle
    /\ stock_info = Idle /\ metrics = Idle /\ scores = Idle
    /\ original = Idle /\ benchmark = Idle /\ analyzer = Idle /\ returned = <<>>

\* a call of VolumeCalculations.calculate_vwap(high, low, close, volume)
CalculateVwap ==
    /\ op = "calculate_vwap" /\ pc = "call"
    /\ result' = calculate_vwap(args.high, args.low, args.close, args.volume)
    /\ pc' = "done"
    /\ UNCHANGED <<op, riskVars, techVars, finVars, original, benchmark, analyzer, args, returned>>

\* a call of VolumeCalculations.calculate_mfi(high, low, close, volume, period)
CalculateMfi ==
    /\ op = "calculate_mfi" /\ pc = "call"
    /\ result' = calculate_mfi(args.high, args.low, args.close, args.volume, args.period)
    /\ pc' = "done"
    /\ UNCHANGED <<op, riskVars, techVars, finVars, original, benchmark, analyzer, args, returned>>

\* technical.py 104-114: the VWAP column the analyzer computes
CalculateVolumeIndicators ==
    /\ op = "_calculate_volume_indicators" /\ pc = "call"
    /\ result' = AnalyzerVwap(args.close, args.volume)
    /\ pc' = "done"
    /\ UNCHANGED <<op, riskVars, techVars, finVars, original, benchmark, analyzer, args, returned>>

NextVolume == CalculateVwap \/ CalculateMfi \/ CalculateVolumeIndicators

SpecVolume == InitVolume /\ [][NextVolume]_vars

VwapDone == op = "calculate_vwap" /\ pc = "done"

----------------------------------------------------------------------------
(* validate_ohlcv_data (data_fetcher.py).  A table is its set of columns    *)
(* and, per column, the sequence of its cells; a null cell is NaN.          *)

Raised(exception, message) == [t |-> "raise", exception |-> exception, message |-> message]
Returned(value) == [t |-> "return", value |-> value]

\* data_fetcher.py 299
required_columns == <<"Open", "High", "Low", "Close", "Volume">>

RequiredSet == {required_columns[i] : i \in DOMAIN required_columns}

\* df.isnull().any().any(): a null cell in any column of the table
AnyNull(d) == \E col \in d.columns : \E i \in DOMAIN d.cells[col] : d.cells[col][i].t = "nan"

\* df.empty: no rows (the tables of the model always have columns)
Empty(d) == d.columns = {} \/ d.rows = 0

\* data_fetcher.py 289-310
validate_ohlcv_data(d) ==
    IF ~(\A i \in DOMAIN required_columns : required_columns[i] \in d.columns)   \* 301
        THEN Raised("DataValidationError", "Missing required columns in OHLCV data")
    ELSE IF Empty(d)                                                             \* 304
        THEN Raised("DataValidationError", "Empty dataset")
    ELSE IF AnyNull(d)                                                           \* 307
        THEN Raised("DataValidationError", "Dataset contains missing values")
    ELSE Returned(TRUE)                                                          \* 310

\* the most rows a validated table has
MaxRows == 2

\* the required columns, all or all but one, with or without one more column
ColumnSets ==
    {(RequiredSet \ gone) \cup extra :
        gone \in {{}} \cup {{c} : c \in RequiredSet}, extra \in {{}, {"Dividends"}}}

\* a table of n rows whose cells are all present except those of `nulls`
RawTable(columns, n, nulls) ==
    [columns |-> columns, rows |-> n,
     cells |-> [col \in columns |->
                  [i \in 1..n |-> IF <<col, i>> \in nulls THEN NaN ELSE Num(100000)]]]

\* no null cell, one, or one in a required and one in another column
RawTableInputs ==
    {RawTable(cols, n, {}) : cols \in ColumnSets, n \in 0..MaxRows}
    \cup {RawTable(cols, n, {<<c, i>>}) :
            cols \in ColumnSets, n \in 1..MaxRows, c \in RequiredSet \cup {"Dividends"}, i \in 1..MaxRows}
    \cup {RawTable(cols, n, {<<"Close", 1>>, <<"Dividends", n>>}) :
            cols \in ColumnSets, n \in 1..MaxRows}

InitValidate ==
    /\ op = "validate_ohlcv_data"
    /\ pc = "call"
    /\ df \in RawTableInputs
    /\ original = df
    /\ result = Idle
    /\ risk_metrics = Idle /\ risk_rating = Idle
    /\ indicators = Idle /\ frame = Idle
    /\ stock_info = Idle /\ metrics = Idle /\ scores = Idle
    /\ benchmark = Idle /\ analyzer = Idle /\ args = Idle /\ returned = <<>>

\* a call of validate_ohlcv_data(df); the table is only read
ValidateOhlcvData ==
    /\ op = "validate_ohlcv_data" /\ pc = "call"
    /\ result' = validate_ohlcv_data(df)
    /\ pc' = IF result'.t = "raise" THEN "raised" ELSE "done"
    /\ UNCHANGED <<op, df, riskVars, indicators, frame, finVars, original, benchmark,
                   analyzer, args, returned>>

SpecValidate == InitValidate /\ [][ValidateOhlcvData]_vars

ValidateDone == op = "validate_ohlcv_data" /\ pc # "call"

----------------------------------------------------------------------------
(* TechnicalAnalysis.generate_signals (components/technical.py).  The       *)
(* analyzer holds the tail of its own table (the last two rows, or the only *)
(* row) and its signals object; indicator values are in thousandths.        *)

\* technical.py 16-20: the signals of a new analyzer
NoSignals == [bullish |-> <<>>, bearish |-> <<>>, neutral |-> <<>>]

\* list.append on one list of the signals object
AppendSignal(signals, side, text) == [signals EXCEPT ![side] = Append(@, text)]

\* technical.py 139: self.df.iloc[-1]
LastRow(a) == a.df[Len(a.df)]

\* technical.py 142-145
MovingAverageSignals(signals, last_row) ==
    IF PyGt(last_row.SMA_50, last_row.SMA_200)
        THEN AppendSignal(signals, "bullish", "Golden Cross (SMA50 above SMA200)")
    ELSE IF PyLt(last_row.SMA_50, last_row.SMA_200)
        THEN AppendSignal(signals, "bearish", "Death Cross (SMA50 below SMA200)")
    ELSE signals

\* technical.py 148-151
RsiSignals(signals, last_row) ==
    IF PyGt(last_row.RSI, Num(70000))
        THEN AppendSignal(signals, "bearish", "RSI Overbought (>70)")
    ELSE IF PyLt(last_row.RSI, Num(30000))
        THEN AppendSignal(signals, "bullish", "RSI Oversold (<30)")
    ELSE signals

\* technical.py 154, 156: self.df['MACD_hist'].iloc[-2] is read only when the
\* first operand of `and` is true, and raises IndexError on a one-row table
MacdReadsPrevious(last_row) ==
    PyGt(last_row.MACD_hist, Num(0)) \/ PyLt(last_row.MACD_hist, Num(0))

MacdSignals_StrictPrevious(signals, last_row, previous) ==
    IF PyGt(last_row.MACD_hist, Num(0)) /\ PyLt(previous, Num(0))
        THEN AppendSignal(signals, "bullish", "MACD Bullish Crossover")
    ELSE IF PyLt(last_row.MACD_hist, Num(0)) /\ PyGt(previous, Num(0))
        THEN AppendSignal(signals, "bearish", "MACD Bearish Crossover")
    ELSE signals

\* technical.py 154-157, on a table of at least two rows
MacdSignals(signals, last_row, previous) ==
    IF PyGt(last_row.MACD_hist, Num(0)) /\ PyLe(previous, Num(0))
        THEN AppendSignal(signals, "bullish", "MACD Bullish Crossover")
    ELSE IF PyLt(last_row.MACD_hist, Num(0)) /\ PyLe(Num(0), previous)
        THEN AppendSignal(signals, "bearish", "MACD Bearish Crossover")
    ELSE signals

\* technical.py 160-163
BollingerSignals(signals, last_row) ==
    IF PyLt(last_row.Close, last_row.BB_lower)
        THEN AppendSignal(signals, "bullish", "Price below Lower Bollinger Band")
    ELSE IF PyGt(last_row.Close, last_row.BB_upper)
        THEN AppendSignal(signals, "bearish", "Price above Upper Bollinger Band")
    ELSE signals

\* technical.py 166-170
AdxSignals(signals, last_row) ==
    IF PyGt(last_row.ADX, Num(25000))
        THEN IF PyGt(last_row.DI_pos, last_row.DI_neg)
                THEN AppendSignal(signals, "bullish", "Strong Uptrend (ADX>25, +DI>-DI)")
                ELSE AppendSignal(signals, "bearish", "Strong Downtrend (ADX>25, +DI<-DI)")
        ELSE signals

\* technical.py 137-172: the signals object after the call, and whether the
\* call returned it or raised on the way
generate_signals(a) ==
    LET last_row == LastRow(a)
        s2 == RsiSignals(MovingAverageSignals(a.signals, last_row), last_row)
    IN  IF MacdReadsPrevious(last_row) /\ Len(a.df) < 2
            THEN [outcome |-> "raise", signals |-> s2]
            ELSE LET previous == IF Len(a.df) < 2 THEN NaN ELSE a.df[Len(a.df) - 1].MACD_hist
                     s3 == MacdSignals(s2, last_row, previous)
                 IN  [outcome |-> "return",
                      signals |-> AdxSignals(BollingerSignals(s3, last_row), last_row)]

\* SMA_50 and SMA_200 of the last row
SmaPairs == {<<NaN, NaN>>, <<Num(100000), NaN>>, <<Num(100000), Num(90000)>>,
             <<Num(100000), Num(110000)>>}

RsiVals == {NaN, Num(20000), Num(30000), Num(70000), Num(80000)}

HistVals == {NaN, Num(-1000), Num(0), Num(1000)}

\* BB_lower and BB_upper of the last row, whose Close is 100
BandPairs == {<<NaN, NaN>>, <<Num(95000), Num(105000)>>, <<Num(102000), Num(110000)>>,
              <<Num(90000), Num(98000)>>}

AdxVals == {NaN, Num(25000), Num(30000)}

DiVals == {NaN, Num(10000), Num(20000)}

\* the last row of an analyzed table, restricted to the columns read
LastRows ==
    {[SMA_50 |-> sma[1], SMA_200 |-> sma[2], RSI |-> r, MACD_hist |-> hist,
      Close |-> Num(100000), BB_lower |-> bb[1], BB_upper |-> bb[2],
      ADX |-> adx, DI_pos |-> dip, DI_neg |-> din] :
        sma \in SmaPairs, r \in RsiVals, hist \in HistVals, bb \in BandPairs,
        adx \in AdxVals, dip \in DiVals, din \in DiVals}

\* no indicator is defined on the only row of a one-row table
UndefinedRow ==
    [SMA_50 |-> NaN, SMA_200 |-> NaN, RSI |-> NaN, MACD_hist |-> NaN,
     Close |-> Num(100000), BB_lower |-> NaN, BB_upper |-> NaN,
     ADX |-> NaN, DI_pos |-> NaN, DI_neg |-> NaN]

\* tails of analyzed tables: the last two rows, or the only row, whose
\* histogram is missing or 0 (the MACD line of one bar equals its signal line)
TableTails ==
    {<<[MACD_hist |-> previous], last>> : previous \in HistVals, last \in LastRows}
    \cup {<<UndefinedRow>>, <<[UndefinedRow EXCEPT !.MACD_hist = Num(0)]>>}

\* technical.py 11-30: TechnicalAnalysis(df) followed by calculate_all_indicators()
InitSignals ==
    /\ op = "generate_signals"
    /\ pc = "call"
    /\ analyzer \in {[df |-> tail, signals |-> NoSignals] : tail \in TableTails}
    /\ original = analyzer
    /\ returned = <<>>
    /\ result = Idle /\ args = Idle /\ benchmark = Idle
    /\ risk_metrics = Idle /\ risk_rating = Idle
    /\ df = Idle /\ indicators = Idle /\ frame = Idle
    /\ stock_info = Idle /\ metrics = Idle /\ scores = Idle

\* a call of analyzer.generate_signals(): the lists of self.signals grow in
\* place and the object returned is self.signals itself, so `returned`
\* records the reference together with the lists as they were at the return
GenerateSignals ==
    /\ op = "generate_signals" /\ pc \in {"call", "done"}
    /\ Len(returned) < MaxCalls
    /\ LET out == generate_signals(analyzer)
       IN  /\ analyzer' = [analyzer EXCEPT !.signals = out.signals]
           /\ IF out.outcome = "raise"
                 THEN /\ pc' = "raised"
                      /\ result' = Raised("IndexError", "single positional indexer is out-of-bounds")
                      /\ UNCHANGED returned
                 ELSE /\ pc' = "done"
                      /\ result' = out.signals
                      /\ returned' = Append(returned, [ref |-> "self.signals",
                                                       lists |-> out.signals])
    /\ UNCHANGED <<op, riskVars, techVars, finVars, original, benchmark, args>>

\* the lists an object returned by generate_signals holds now
Deref(r) == IF r.ref = "self.signals" THEN analyzer.signals ELSE r.lists

SpecSignals == InitSignals /\ [][GenerateSignals]_vars

SignalsDone == op = "generate_signals" /\ pc = "done"

----------------------------------------------------------------------------
(* TechnicalAnalysis(df).calculate_all_indicators() (components/technical.py) *)
(* The columns are computed by the `ta` library into the analyzer's own     *)
(* table; the model keeps their names, and the pivot levels in thousandths. *)

\* technical.py 47-114: the columns assigned to self.df
AnalyzerColumns ==
    {"SMA_5", "SMA_10", "SMA_20", "SMA_50", "SMA_100", "SMA_200",
     "EMA_9", "EMA_12", "EMA_26", "EMA_50", "MACD_line", "MACD_signal", "MACD_hist",
     "RSI", "Stoch_k", "Stoch_d", "Williams_R", "ROC",
     "ADX", "DI_pos", "DI_neg", "SAR", "CCI",
     "BB_upper", "BB_middle", "BB_lower", "ATR", "KC_upper", "KC_lower",
     "OBV", "VWAP", "MFI"}

\* technical.py 11-20: the analyzer works on a copy of the table
TechnicalAnalysis(d) ==
    [df            |-> d,                                                 \* 13: df.copy()
     current_price |-> Num(d.Close[Len(d.Close)]),                        \* 14
     indicators    |-> <<>>,                                              \* 15
     signals       |-> NoSignals]                                         \* 16-20

\* technical.py 116-135
support_resistance(d) ==
    LET n     == Len(d.Close)
        high  == d.High[n]                                                \* 119
        low   == d.Low[n]                                                 \* 120
        close == d.Close[n]                                               \* 121
        pivot == (high + low + close) \div 3                              \* 123
    IN  [pivot |-> Num(pivot),
         r1    |-> Num(2 * pivot - low),                                  \* 124
         r2    |-> Num(pivot + (high - low)),                             \* 125
         s1    |-> Num(2 * pivot - high),                                 \* 126
         s2    |-> Num(pivot - (high - low))]                             \* 127

\* technical.py 22-30: the analyzer after calculate_all_indicators()
AnalyzerCalculateAll(a) ==
    [a EXCEPT !.df.columns = @ \cup AnalyzerColumns,                      \* 24-28
              !.indicators = [support_resistance |-> support_resistance(a.df)]]  \* 29

\* tables long enough for every window of the library
LongTables == {d \in PriceSeriesInputs : Len(d.Close) >= 200}

InitTechnicalAnalysis ==
    /\ op = "TechnicalAnalysis"
    /\ pc = "call"
    /\ df \in LongTables
    /\ original = df
    /\ returned = <<>>
    /\ result = Idle /\ args = Idle /\ benchmark = Idle /\ analyzer = Idle
    /\ risk_metrics = Idle /\ risk_rating = Idle
    /\ indicators = Idle /\ frame = Idle
    /\ stock_info = Idle /\ metrics = Idle /\ scores = Idle

\* TechnicalAnalysis(df).calculate_all_indicators() (technical.py 238-239),
\* possibly again on the same table: every call builds a new analyzer
TechnicalAnalysisCalculateAll ==
    /\ op = "TechnicalAnalysis" /\ Len(returned) < MaxCalls
    /\ analyzer' = AnalyzerCalculateAll(TechnicalAnalysis(df))
    /\ result' = analyzer'.indicators
    /\ returned' = Append(returned, result')
    /\ df' = df
    /\ pc' = "done"
    /\ UNCHANGED <<op, riskVars, indicators, frame, finVars, original, benchmark, args>>

----------------------------------------------------------------------------
(* The pivot levels in floating point.  _calculate_support_resistance works *)
(* on numpy floats: every operation returns the exact result rounded to the *)
(* nearest number of the format, ties to even.  The model keeps the format  *)
(* and shortens its significand; a number is an integer count of the        *)
(* smallest unit of the format.                                             *)

\* bits of the significand (53 in binary64)
Precision == 4

RECURSIVE UlpFrom(_, _)
UlpFrom(q, u) == IF q >= (2 ^ Precision) * u THEN UlpFrom(q, 2 * u) ELSE u

\* the spacing of the numbers of the format around q >= 0
Ulp(q) == UlpFrom(q, 1)

\* a / b (a >= 0, b > 0) rounded to the nearest number of the format
RoundPos(a, b) ==
    LET u   == Ulp(a \div b)
        k   == a \div (b * u)
        rem == a - k * b * u
    IN  IF 2 * rem > b * u \/ (2 * rem = b * u /\ k % 2 = 1) THEN (k + 1) * u ELSE k * u

RoundFl(a, b) == IF a < 0 THEN -RoundPos(-a, b) ELSE RoundPos(a, b)

\* x + y, x - y and x / n on floats
FlAdd(x, y) == RoundFl(x + y, 1)
FlSub(x, y) == RoundFl(x - y, 1)
FlDiv(x, n) == RoundFl(x, n)

\* technical.py 123-127 on the last bar's high, low and close
pivot_levels(high, low, close) ==
    LET pivot == FlDiv(FlAdd(FlAdd(high, low), close), 3)                 \* 123
    IN  [pivot |-> pivot,
         r1    |-> FlSub(2 * pivot, low),                                 \* 124
         r2    |-> FlAdd(pivot, FlSub(high, low)),                        \* 125
         s1    |-> FlSub(2 * pivot, high),                                \* 126
         s2    |-> FlSub(pivot, FlSub(high, low))]                        \* 127

\* the numbers of the format in two neighbouring binades
FloatVals ==
    {m * 4 : m \in (2 ^ (Precision - 1))..(2 ^ Precision - 1)}
    \cup {m * 8 : m \in (2 ^ (Precision - 1))..(2 ^ Precision - 1)}

\* last bars with low <= close <= high
LastBars ==
    {b \in [High : FloatVals, Low : FloatVals, Close : FloatVals] :
        b.Low <= b.Close /\ b.Close <= b.High}

InitPivot ==
    /\ op = "_calculate_support_resistance"
    /\ pc = "call"
    /\ args \in LastBars
    /\ result = Idle
    /\ risk_metrics = Idle /\ risk_rating = Idle
    /\ df = Idle /\ indicators = Idle /\ frame = Idle
    /\ stock_info = Idle /\ metrics = Idle /\ scores = Idle
    /\ original = Idle /\ benchmark = Idle /\ analyzer = Idle /\ returned = <<>>

\* technical.py 116-135: self.indicators['support_resistance'] of the last bar
CalculateSupportResistance ==
    /\ op = "_calculate_support_resistance" /\ pc = "call"
    /\ result' = pivot_levels(args.High, args.Low, args.Close)
    /\ pc' = "done"
    /\ UNCHANGED <<op, riskVars, techVars, finVars, original, benchmark, analyzer, args, returned>>

SpecPivot == InitPivot /\ [][CalculateSupportResistance]_vars

PivotDone == op = "_calculate_support_resistance" /\ pc = "done"

----------------------------------------------------------------------------
(* The core computations, each called once or more on one table *)

InitCore == InitTech \/ InitAnalyzer \/ InitAllIndicators \/ InitTechnicalAnalysis

NextCore ==
    \/ GetTechnicalIndicators
    \/ RiskAnalyzerInit
    \/ CalculateAllIndicators
    \/ TechnicalAnalysisCalculateAll

SpecCore == InitCore /\ [][NextCore]_vars

\* a core computation has returned
CoreDone ==
    /\ op \in {"get_technical_indicators", "RiskAnalyzer", "calculate_all_indicators",
               "TechnicalAnalysis"}
    /\ pc = "done"

----------------------------------------------------------------------------
(* The entry points together *)

Init ==
    \/ InitRisk \/ InitTech \/ InitFin
    \/ InitAnalyzer \/ InitCalc \/ InitAllIndicators
    \/ InitValidate \/ InitSignals \/ InitTechnicalAnalysis
    \/ InitPivot \/ InitVolume \/ InitReturns

Next ==
    \/ GetRiskRating
    \/ GetTechnicalIndicators
    \/ GetFinancialMetrics
    \/ CalculateFundamentalScores
    \/ RiskAnalyzerInit
    \/ CalculateSma
    \/ CalculateRsi
    \/ CalculateAllIndicators
    \/ ValidateOhlcvData
    \/ GenerateSignals
    \/ TechnicalAnalysisCalculateAll
    \/ CalculateSupportResistance
    \/ CalculateVwap
    \/ CalculateMfi
    \/ CalculateVolumeIndicators
    \/ CalculateRiskMetrics

Spec == Init /\ [][Next]_vars

----------------------------------------------------------------------------
(* Claims on the risk rating (SpecRisk) *)

\* the point table as the specification states it, per axis
StatedVolPoints(a) ==
    IF PyGt(a, Num(40)) THEN 3 ELSE IF PyGt(a, Num(25)) THEN 2
    ELSE IF PyGt(a, Num(15)) THEN 1 ELSE 0

StatedBetaPoints(b) ==
    IF b.t = "None" THEN 0
    ELSE IF PyGt(b, Num(150)) THEN 3 ELSE IF PyGt(b, Num(120)) THEN 2
    ELSE IF PyGt(b, Num(100)) THEN 1 ELSE 0

StatedDDPoints(d) ==
    IF PyLt(d, Num(-50)) THEN 3 ELSE IF PyLt(d, Num(-30)) THEN 2
    ELSE IF PyLt(d, Num(-20)) THEN 1 ELSE 0

StatedTotal(m) ==
    StatedVolPoints(m.annual_volatility) + StatedBetaPoints(m.beta)
        + StatedDDPoints(m.max_drawdown)

\* the points a reason string stands for, and the axis it belongs to
ReasonPoints(r) ==
    CASE r \in {"Very high volatility", "Very high market sensitivity",
                "Severe historical drawdowns"} -> 3
      [] r \in {"High volatility", "High market sensitivity",
                "Significant historical drawdowns"} -> 2
      [] OTHER -> 1

ReasonAxis(r) ==
    CASE r \in {"Very high volatility", "High volatility", "Moderate volatility"} -> 1
      [] r \in {"Very high market sensitivity", "High market sensitivity",
                "Above-market sensitivity"} -> 2
      [] OTHER -> 3

\* points the returned factor list attributes to an axis (0 when it has no factor)
AxisPoints(reasons, axis) ==
    LET idx == {i \in 1..Len(reasons) : ReasonAxis(reasons[i]) = axis}
    IN  IF idx = {} THEN 0 ELSE ReasonPoints(reasons[CHOOSE i \in idx : TRUE])

\* C1: the rating is the one the total of the three axis points determines:
\* >= 7 Very High Risk, 5..6 High Risk, 3..4 Moderate Risk, 0..2 Low Risk.
C1_RatingByTotal ==
    RiskDone =>
        LET total == StatedTotal(risk_metrics)
        IN  /\ total \in 0..9
            /\ risk_rating.rating =
                 CASE total >= 7      -> "Very High Risk"
                   [] total \in 5..6  -> "High Risk"
                   [] total \in 3..4  -> "Moderate Risk"
                   [] total \in 0..2  -> "Low Risk"

\* a total of exactly 7 (3 + 2 + 2) is rated Very High Risk
C1_Witness ==
    /\ RiskDone
    /\ risk_metrics = [annual_volatility |-> Num(41), beta |-> Num(121), max_drawdown |-> Num(-31)]
    /\ risk_rating.rating = "Very High Risk"

\* C2: each axis contributes the points of its strict threshold table; a value
\* on a threshold falls in the lower bucket and a None beta contributes 0.
C2_AxisPoints ==
    RiskDone =>
        /\ AxisPoints(risk_rating.reasons, 1) = StatedVolPoints(risk_metrics.annual_volatility)
        /\ AxisPoints(risk_rating.reasons, 2) = StatedBetaPoints(risk_metrics.beta)
        /\ AxisPoints(risk_rating.reasons, 3) = StatedDDPoints(risk_metrics.max_drawdown)
        /\ risk_rating.risk_score = StatedTotal(risk_metrics)
        /\ (risk_metrics.annual_volatility = Num(40) => AxisPoints(risk_rating.reasons, 1) = 2)
        /\ (risk_metrics.annual_volatility = Num(25) => AxisPoints(risk_rating.reasons, 1) = 1)
        /\ (risk_metrics.annual_volatility = Num(15) => AxisPoints(risk_rating.reasons, 1) = 0)
        /\ (risk_metrics.beta = Num(150) => AxisPoints(risk_rating.reasons, 2) = 2)
        /\ (risk_metrics.beta = Num(120) => AxisPoints(risk_rating.reasons, 2) = 1)
        /\ (risk_metrics.beta = Num(100) => AxisPoints(risk_rating.reasons, 2) = 0)
        /\ (risk_metrics.beta = None => AxisPoints(risk_rating.reasons, 2) = 0)
        /\ (risk_metrics.max_drawdown = Num(-50) => AxisPoints(risk_rating.reasons, 3) = 2)
        /\ (risk_metrics.max_drawdown = Num(-30) => AxisPoints(risk_rating.reasons, 3) = 1)
        /\ (risk_metrics.max_drawdown = Num(-20) => AxisPoints(risk_rating.reasons, 3) = 0)

\* all three values exactly on their top thresholds: 2 + 2 + 2
C2_Witness ==
    /\ RiskDone
    /\ risk_metrics = [annual_volatility |-> Num(40), beta |-> Num(150), max_drawdown |-> Num(-50)]
    /\ risk_rating.risk_score = 6

\* the factor string of an axis for a number of points
StatedFactor(axis, points) ==
    IF points = 0 THEN <<>>
    ELSE IF axis = 1
        THEN << <<"Moderate volatility", "High volatility", "Very high volatility">>[points] >>
    ELSE IF axis = 2
        THEN << <<"Above-market sensitivity", "High market sensitivity",
                  "Very high market sensitivity">>[points] >>
    ELSE << <<"Moderate historical drawdowns", "Significant historical drawdowns",
              "Severe historical drawdowns">>[points] >>

\* C3: the factor list holds exactly one reason per axis with non-zero points,
\* none for an axis with 0 points, in the order volatility, beta, drawdown;
\* 0.45 / 1.6 / -0.55 gives Very High Risk with three factors in that order.
C3_FactorList ==
    RiskDone =>
        /\ risk_rating.reasons =
               StatedFactor(1, StatedVolPoints(risk_metrics.annual_volatility))
            \o StatedFactor(2, StatedBetaPoints(risk_metrics.beta))
            \o StatedFactor(3, StatedDDPoints(risk_metrics.max_drawdown))
        /\ (risk_metrics = [annual_volatility |-> Num(45), beta |-> Num(160),
                            max_drawdown |-> Num(-55)]
              => /\ risk_rating.rating = "Very High Risk"
                 /\ risk_rating.reasons = <<"Very high volatility",
                                            "Very high market sensitivity",
                                            "Severe historical drawdowns">>)

C3_Witness ==
    /\ RiskDone
    /\ risk_metrics = [annual_volatility |-> Num(45), beta |-> Num(160), max_drawdown |-> Num(-55)]
    /\ Len(risk_rating.reasons) = 3

----------------------------------------------------------------------------
(* Claims on the overall technical signal (SpecTech) *)

\* the five-condition panel as stated, over the values the call compared
StatedBullish(f) ==
    Count(<<PyGt(f.latest_close, f.MA50),
            PyGt(f.MA50, f.MA200),
            PyLe(Num(3000), f.rsi_value) /\ PyLe(f.rsi_value, Num(7000)),
            PyGt(f.macd_value, f.macd_signal),
            PyGt(f.volume_ratio, Num(100))>>)

StatedBearish(f) ==
    Count(<<PyLt(f.latest_close, f.MA50),
            PyLt(f.MA50, f.MA200),
            PyGt(f.rsi_value, Num(7000)) \/ PyLt(f.rsi_value, Num(3000)),
            PyLt(f.macd_value, f.macd_signal),
            PyLt(f.volume_ratio, Num(100))>>)

\* C4: Overall_Signal is the majority of the panel: Bullish iff more bullish
\* than bearish conditions hold, Bearish iff more bearish than bullish, and
\* Neutral on every tie, the 0-0 tie of missing indicators included.
C4_PanelMajority ==
    (TechDone /\ Len(df.Close) >= 1) =>
        indicators.Overall_Signal =
            IF StatedBullish(frame) > StatedBearish(frame) THEN "Bullish"
            ELSE IF StatedBearish(frame) > StatedBullish(frame) THEN "Bearish"
            ELSE "Neutral"

\* C5: 252 bars, each close 1% above the one before (on a traded series:
\* positive volume), give Overall_Signal Bullish.
C5_RisingSeriesBullish ==
    (TechDone /\ df.Close = CloseSeries(252, 0, 1, 1) /\ df.Volume[1] > 0) =>
        indicators.Overall_Signal = "Bullish"

----------------------------------------------------------------------------
(* Claims on the fundamental scores (SpecFin) *)

ScoreNames ==
    {"Valuation_Score", "Profitability_Score", "Growth_Score",
     "Financial_Health_Score", "Overall_Score"}

\* C6: whatever the snapshot holds (extreme, negative, infinite or NaN field
\* values), each of the five scores calculate_fundamental_scores returns is a
\* number between 0 and 100.
C6_ScoresInRange ==
    ScoresDone =>
        \A k \in ScoreNames :
            /\ k \in DOMAIN scores
            /\ scores[k].t = "num"
            /\ Points(0).v <= scores[k].v /\ scores[k].v <= Points(100).v

\* C6: a snapshot with P/E 25 and a NaN price-to-book was scored (valuation 0),
\* and so was one with an infinite current ratio (health 100).
C6_Witness ==
    /\ FinDone /\ "Scores" \in DOMAIN metrics
    /\ \/ /\ stock_info["trailingPE"] = Num(25000)
          /\ stock_info["priceToBook"] = NaN
          /\ scores.Valuation_Score = Points(0)
       \/ /\ stock_info["currentRatio"] = PosInf
          /\ stock_info["debtToEquity"].t = "num"
          /\ scores.Financial_Health_Score = Points(100)

\* clamp(0, 100, (PE/30 + PB/3) * 50) from the snapshot's own fields (in
\* thousandths), in score units
StatedValuation(pe, pb) ==
    LET x == 20 * pe + 200 * pb
    IN  IF pe <= 0 THEN Points(50).v
        ELSE IF x < 0 THEN 0 ELSE IF x > Points(100).v THEN Points(100).v ELSE x

\* the largest change of the valuation score that rounding P/E and P/B to two
\* decimals can cause stays below a tenth of a point
RoundingSlack == Points(1).v \div 10

\* C7: for a snapshot with finite trailingPE and priceToBook, Valuation_Score
\* is 50 when trailingPE <= 0 and clamp(0, 100, (PE/30 + PB/3) * 50) of the
\* snapshot's values when trailingPE > 0, however small (compared up to the
\* two-decimal rounding of the ratios).
C7_ValuationFromSnapshot ==
    (/\ FinDone /\ "Scores" \in DOMAIN metrics
     /\ stock_info["trailingPE"].t = "num" /\ stock_info["priceToBook"].t = "num") =>
        LET stated == StatedValuation(stock_info["trailingPE"].v, stock_info["priceToBook"].v)
            got    == scores.Valuation_Score.v
        IN  /\ scores.Valuation_Score.t = "num"
            /\ stated - got <= RoundingSlack /\ got - stated <= RoundingSlack
            /\ stock_info["trailingPE"].v <= 0 => got = Points(50).v

\* C8: when the four category scores are computed without a parse failure,
\* Overall_Score = 0.30 Valuation + 0.25 Profitability + 0.25 Growth
\* + 0.20 Financial_Health of the same mapping (times 20 on both sides).
C8_OverallWeights ==
    (/\ ScoresDone
     /\ ~ParseFailure(metrics)) =>
        20 * scores.Overall_Score.v =
            6 * scores.Valuation_Score.v + 5 * scores.Profitability_Score.v
            + 5 * scores.Growth_Score.v + 4 * scores.Financial_Health_Score.v

\* C8: the typical snapshot was scored with four different-looking category
\* scores (66.67, 80, 80, 93.4) and none of them clamped.
C8_Witness ==
    /\ ScoresDone /\ ~ParseFailure(metrics)
    /\ scores.Valuation_Score = Num(800000)
    /\ scores.Profitability_Score = Num(960000)
    /\ scores.Growth_Score = Num(960000)
    /\ scores.Financial_Health_Score = Num(1120800)

\* every present field is a float (the symbol a string); nothing malformed
WellFormed(info) ==
    /\ info["symbol"].t \in {"absent", "str"}
    /\ \A k \in InfoKeys \ {"symbol"} : info[k].t \in {"absent", "num", "nan", "inf", "ninf"}

\* the snapshot with 0 in place of every absent ratio
ZeroFilled(info) ==
    [k \in InfoKeys |-> IF k # "symbol" /\ info[k].t = "absent" THEN Num(0) ELSE info[k]]

\* C9: with any subset of fields absent (the empty snapshot included)
\* get_financial_metrics does not fail, returns the six ratio groups plus
\* Scores, and the scores are those of the snapshot with 0 substituted for
\* every absent ratio; the empty snapshot scores 50, 0, 0, 50, 25.
C9_AbsentFieldsDefault ==
    (/\ op = "get_financial_metrics" /\ pc # "call"
     /\ WellFormed(stock_info)) =>
        /\ pc = "done"
        /\ DOMAIN metrics = GroupNames \cup {"Scores"}
        /\ metrics["Scores"] = get_financial_metrics(ZeroFilled(stock_info)).value["Scores"]
        /\ stock_info = EmptyInfo =>
              metrics["Scores"] =
                  [Valuation_Score |-> Points(50), Profitability_Score |-> Points(0),
                   Growth_Score |-> Points(0), Financial_Health_Score |-> Points(50),
                   Overall_Score |-> Points(25)]

\* C9: the empty snapshot was processed, and so was a snapshot whose only
\* field is a positive P/E.
C9_Witness ==
    /\ FinDone
    /\ \/ stock_info = EmptyInfo /\ scores.Overall_Score = Points(25)
       \/ /\ stock_info["trailingPE"] = Num(25000)
          /\ \A k \in InfoKeys \ {"trailingPE"} : stock_info[k] = Absent
          /\ "Scores" \in DOMAIN metrics

\* a numeric field holds null or a non-numeric value
Malformed(info) ==
    /\ info["symbol"].t \in {"absent", "str"}
    /\ \E k \in InfoKeys \ {"symbol"} : info[k].t \in {"None", "str"}

\* C10: for a snapshot with a present but malformed field (None, 'n/a')
\* get_financial_metrics still returns the six ratio groups and all five
\* scores, never an empty or partial mapping.
C10_MalformedStillComplete ==
    (/\ op = "get_financial_metrics" /\ pc # "call"
     /\ Malformed(stock_info)) =>
        /\ pc = "done"
        /\ GroupNames \cup {"Scores"} \subseteq DOMAIN metrics
        /\ ScoreNames \subseteq DOMAIN metrics["Scores"]

----------------------------------------------------------------------------
(* Claims on RiskAnalyzer (SpecAnalyzer) *)

NonDecreasing(close) == \A i \in 1..(Len(close) - 1) : close[i] <= close[i + 1]

\* C11: for a series of at least 2 bars max_drawdown is a number <= 0, and
\* it is 0 exactly when the close series never decreases.
C11_MaxDrawdownZeroIffMonotone ==
    (AnalyzerDone /\ Len(df.Close) >= 2) =>
        /\ risk_metrics.max_drawdown.t = "num"
        /\ risk_metrics.max_drawdown.v <= 0
        /\ risk_metrics.max_drawdown.v = 0 <=> NonDecreasing(df.Close)

\* C12: for a series of at least 2 bars var_95 and cvar_95 are defined
\* numbers and cvar_95 <= var_95.
C12_CVarAtMostVar ==
    (AnalyzerDone /\ Len(df.Close) >= 2) =>
        /\ risk_metrics.var_95.t = "num"
        /\ risk_metrics.cvar_95.t = "num"
        /\ risk_metrics.cvar_95.v <= risk_metrics.var_95.v

\* the benchmark returns the latest beta was computed from
BenchmarkReturns ==
    IF benchmark.t = "raise" THEN <<>> ELSE dropna(pct_change(benchmark.table.Close))

\* np.var of the benchmark returns is 0
ZeroVariance(b) == Len(b) >= 1 /\ \A i \in DOMAIN b : b[i] = b[1]

\* C13: beta is None when the benchmark is unavailable (the download raised
\* or gave no returns) and when the benchmark returns have zero variance;
\* for a benchmark as long as the series with a non-zero variance it is
\* covariance / variance; it is never NaN or infinite.
C13_BetaNoneOrRatio ==
    (AnalyzerDone /\ Len(df.Close) >= 2) =>
        LET a == dropna(df.Returns)
            b == BenchmarkReturns
        IN  /\ (Len(b) = 0 \/ ZeroVariance(b)) => risk_metrics.beta = None
            /\ (Len(b) = Len(a) /\ ~ZeroVariance(b)) =>
                   risk_metrics.beta.t = "num" /\ risk_metrics.beta = CovOverVar(a, b)
            /\ risk_metrics.beta.t \notin {"nan", "inf", "ninf"}

\* C14: after construction risk_metrics has exactly the eleven keys, whether
\* or not the beta step failed; when it failed beta is None and skewness,
\* kurtosis and downside_deviation are present all the same.
C14_ElevenKeys ==
    AnalyzerDone =>
        /\ DOMAIN risk_metrics = {RiskMetricKeys[i] : i \in DOMAIN RiskMetricKeys}
        /\ Cardinality(DOMAIN risk_metrics) = 11
        /\ benchmark.t = "raise" =>
              /\ risk_metrics.beta = None
              /\ risk_metrics.skewness = skew(df.Returns)
              /\ risk_metrics.kurtosis = kurtosis(df.Returns)
              /\ risk_metrics.downside_deviation = calculate_downside_deviation(df.Returns)

\* C14: an analyzer was built while the download raised, on a series long
\* enough for skewness and downside deviation to be numbers.
C14_Witness ==
    /\ AnalyzerDone
    /\ benchmark = Unavailable
    /\ risk_metrics.beta = None
    /\ risk_metrics.skewness.t = "num"
    /\ risk_metrics.kurtosis.t = "num"
    /\ risk_metrics.downside_deviation.t = "num"

----------------------------------------------------------------------------
(* Claims on TechnicalCalculations (SpecCalc) *)

----------------------------------------------------------------------------
(* Claims on validate_ohlcv_data (SpecValidate) *)

\* what the validation is stated to do: missing column, then zero rows, then
\* a null cell in a required column; True for every other table
StatedValidation(d) ==
    IF ~(RequiredSet \subseteq d.columns) THEN "raise"
    ELSE IF d.rows = 0 THEN "raise"
    ELSE IF \E col \in RequiredSet : \E i \in 1..d.rows : d.cells[col][i] = NaN THEN "raise"
    ELSE "return"

\* C18: validate_ohlcv_data raises DataValidationError exactly when a
\* required column is absent, the table has no rows, or a cell of a required
\* column is null (tested in that order) and returns True for every other
\* table, one whose only nulls are in other columns included; the table is
\* not mutated.
C18_ValidationExactly ==
    ValidateDone =>
        /\ result.t = StatedValidation(original)
        /\ result.t = "raise" => result.exception = "DataValidationError"
        /\ result.t = "return" => result.value = TRUE
        /\ (~(RequiredSet \subseteq original.columns)) =>
              result.message = "Missing required columns in OHLCV data"
        /\ (RequiredSet \subseteq original.columns /\ original.rows = 0) =>
              result.message = "Empty dataset"
        /\ df = original

----------------------------------------------------------------------------
(* Claims on TechnicalAnalysis.generate_signals (SpecSignals) *)

\* C17: every call of generate_signals on the same analyzer returns the same
\* bullish/bearish/neutral lists as the first call did, and a set of signals
\* returned by an earlier call is not changed by a later call.
C17_FreshSignalSet ==
    SignalsDone =>
        \A i \in 1..Len(returned) :
            /\ returned[i].lists = returned[1].lists
            /\ Deref(returned[i]) = returned[i].lists

----------------------------------------------------------------------------
(* Claims on the core computations (SpecCore) *)

\* C15: the indicator computation (get_technical_indicators,
\* calculate_all_indicators) and the risk computation (RiskAnalyzer) return
\* identical results on every call made on the same table, the second call
\* on the table the first call already processed included, independent of
\* anything outside the table.
C15_SameResultEveryCall ==
    (CoreDone /\ op # "TechnicalAnalysis") =>
        \A i \in 1..Len(returned) : returned[i] = returned[1]

\* C16: after get_technical_indicators(df), RiskAnalyzer(df),
\* calculate_all_indicators(df) or TechnicalAnalysis(df).calculate_all_indicators()
\* the table passed in has the same columns and the same cells as before.
C16_CallerTableUntouched ==
    CoreDone => df = original

----------------------------------------------------------------------------
(* Claims on calculate_rsi with no losses (SpecCalc) *)

\* the sum of the losses of the window ending at bar i
WindowLoss(prices, period, i) ==
    SumRange([j \in DOMAIN prices |->
                 IF j > 1 /\ prices[j] < prices[j - 1] THEN prices[j - 1] - prices[j] ELSE 0],
             i - period + 1, i)

\* C21: at every bar with a full window whose average loss is 0,
\* calculate_rsi yields 100, whether the average gain is positive or 0; a
\* flat series has RSI 100 at every bar with a full window.
C21_NoLossIsHundred ==
    RsiDone =>
        \A i \in args.period..Len(args.prices) :
            WindowLoss(args.prices, args.period, i) = 0 => result[i] = Num(1000)

----------------------------------------------------------------------------
(* Claims on the accumulated risk score (SpecRisk) *)

\* C29: the accumulated risk_score is an integer in 0..9, and in 0..6 when
\* beta is None, so that a RiskMetrics with beta = None is never rated
\* 'Very High Risk'.
C29_ScoreRange ==
    RiskDone =>
        /\ risk_rating.risk_score \in 0..9
        /\ risk_metrics.beta = None =>
              /\ risk_rating.risk_score \in 0..6
              /\ risk_rating.rating # "Very High Risk"

\* C29: a RiskMetrics without beta reached the highest score it can have, with
\* the highest volatility and drawdown bands, and was rated 'High Risk'.
C29_Witness ==
    /\ RiskDone
    /\ risk_metrics.beta = None
    /\ PyGt(risk_metrics.annual_volatility, Num(40))
    /\ PyLt(risk_metrics.max_drawdown, Num(-50))
    /\ risk_rating.risk_score = 6
    /\ risk_rating.rating = "High Risk"

----------------------------------------------------------------------------
(* Claims on the pivot levels (SpecPivot) *)

\* C30: for every last bar with low <= close <= high the pivot levels are
\* ordered s2 <= s1 <= pivot <= r1 <= r2, and low <= pivot <= high.
C30_PivotLevelsOrdered ==
    PivotDone =>
        /\ result.s2 <= result.s1
        /\ result.s1 <= result.pivot
        /\ result.pivot <= result.r1
        /\ result.r1 <= result.r2
        /\ args.Low <= result.pivot
        /\ result.pivot <= args.High

----------------------------------------------------------------------------
(* Claims on the rules of generate_signals (SpecSignals) *)

\* how often a signal is in a list
Occurrences(list, text) == Cardinality({i \in DOMAIN list : list[i] = text})

\* the MACD histogram of the bar before the last, missing without such a bar
PreviousHist == IF Len(analyzer.df) < 2 THEN NaN ELSE analyzer.df[Len(analyzer.df) - 1].MACD_hist

\* C24: every call of generate_signals adds 'MACD Bullish Crossover' to
\* bullish exactly when the previous histogram is <= 0 and the current one
\* > 0, 'MACD Bearish Crossover' to bearish exactly when the previous one is
\* >= 0 and the current one < 0, never both, and neither when the histogram
\* keeps its sign, is missing or has no previous bar; it does not raise.
C24_MacdCrossover ==
    (op = "generate_signals" /\ pc # "call") =>
        LET current == LastRow(analyzer).MACD_hist
            up      == PreviousHist.t = "num" /\ PreviousHist.v <= 0
                       /\ current.t = "num" /\ current.v > 0
            down    == PreviousHist.t = "num" /\ PreviousHist.v >= 0
                       /\ current.t = "num" /\ current.v < 0
            bull    == Occurrences(analyzer.signals.bullish, "MACD Bullish Crossover")
            bear    == Occurrences(analyzer.signals.bearish, "MACD Bearish Crossover")
        IN  /\ pc = "done"
            /\ bull = IF up THEN Len(returned) ELSE 0
            /\ bear = IF down THEN Len(returned) ELSE 0
            /\ bull = 0 \/ bear = 0

\* C24: a call found the histogram at 0 on the previous bar and above 0 on the
\* last bar and added the bullish crossover, and no bearish one.
C24_Witness ==
    /\ SignalsDone
    /\ PreviousHist = Num(0)
    /\ LastRow(analyzer).MACD_hist = Num(1000)
    /\ Occurrences(analyzer.signals.bullish, "MACD Bullish Crossover") = Len(returned)
    /\ Occurrences(analyzer.signals.bearish, "MACD Bearish Crossover") = 0

\* C25: with ADX > 25 every call adds 'Strong Uptrend' to bullish iff
\* +DI > -DI and 'Strong Downtrend' to bearish iff +DI < -DI; with ADX <= 25
\* or ADX missing it adds neither; no downtrend signal is added when the two
\* DI values are equal or one of them is missing.
C25_AdxDirection ==
    SignalsDone =>
        LET row    == LastRow(analyzer)
            strong == row.ADX.t = "num" /\ row.ADX.v > 25000
            both   == row.DI_pos.t = "num" /\ row.DI_neg.t = "num"
            upt    == Occurrences(analyzer.signals.bullish, "Strong Uptrend (ADX>25, +DI>-DI)")
            downt  == Occurrences(analyzer.signals.bearish, "Strong Downtrend (ADX>25, +DI<-DI)")
        IN  /\ upt = IF strong /\ both /\ row.DI_pos.v > row.DI_neg.v THEN Len(returned) ELSE 0
            /\ downt = IF strong /\ both /\ row.DI_pos.v < row.DI_neg.v THEN Len(returned) ELSE 0

----------------------------------------------------------------------------
(* Claims on short series and on the MACD of get_technical_indicators (SpecTech) *)

\* C23: for a valid series shorter than some indicator's window,
\* get_technical_indicators still returns the indicators and statuses whose
\* window fits (RSI_Signal, Volume_Signal, BB_Status, and an Overall_Signal
\* in {Bullish, Bearish, Neutral}) and never the abort mapping with an
\* 'error' key and 'N/A' values.
C23_ShortSeriesDegrade ==
    (TechDone /\ Len(df.Close) >= 1 /\ Len(df.Close) < 200) =>
        /\ "error" \notin DOMAIN indicators
        /\ {"RSI_Signal", "Volume_Signal", "BB_Status", "Overall_Signal"} \subseteq DOMAIN indicators
        /\ indicators.Overall_Signal \in {"Bullish", "Bearish", "Neutral"}

\* C26: the value reported as 'MACD' is the MACD line EMA(12) - EMA(26), and
\* the MACD condition is bullish exactly when that line is above its signal
\* line, that is when the histogram MACD - signal is positive.
C26_MacdIsLine ==
    (TechDone /\ "error" \notin DOMAIN indicators /\ Len(MacdLine(df.Close)) >= 9) =>
        LET line   == MacdLine(df.Close)
            latest == line[Len(line)]
            signal == Ewm(line, 2, 10)[Len(line)]
        IN  /\ indicators.MACD = Num(latest)
            /\ indicators.MACD_Signal = "Bullish" <=> latest > signal

----------------------------------------------------------------------------
(* Claims on the volume indicators (SpecVolume) *)

\* the bars without volume
ZeroVolumeBars(volume) == {i \in DOMAIN volume : volume[i] = 0}

\* a column without its bar z
Without(column, z) ==
    [i \in 1..(Len(column) - 1) |-> IF i < z THEN column[i] ELSE column[i + 1]]

\* C22: on a series with exactly one zero-volume bar calculate_vwap and
\* calculate_mfi do not raise; the VWAP of the zero-volume bar is missing
\* when it is the first bar and the VWAP of the bar before it otherwise, and
\* the VWAP of every other bar is what it is without the zero-volume bar.
C22_ZeroVolumeBar ==
    (op \in {"calculate_vwap", "calculate_mfi"} /\ pc # "call"
        /\ Cardinality(ZeroVolumeBars(args.volume)) = 1) =>
        /\ pc = "done"
        /\ Len(result) = Len(args.close)
        /\ op = "calculate_vwap" =>
              LET z    == CHOOSE i \in ZeroVolumeBars(args.volume) : TRUE
                  rest == calculate_vwap(Without(args.high, z), Without(args.low, z),
                                         Without(args.close, z), Without(args.volume, z))
              IN  /\ result[z] = IF z = 1 THEN NaN ELSE result[z - 1]
                  /\ \A i \in 1..(z - 1) : result[i] = rest[i]
                  /\ \A i \in (z + 1)..Len(result) : result[i] = rest[i - 1]

\* C22: a VWAP was computed over three bars of which the second has no
\* volume and carries the first bar's value, the third bar moving on.
C22_Witness ==
    /\ VwapDone
    /\ Len(args.volume) = 3
    /\ ZeroVolumeBars(args.volume) = {2}
    /\ result[1].t = "num"
    /\ result[2] = result[1]
    /\ result[3].t = "num" /\ result[3] # result[2]

\* cumulative typical_price * volume over cumulative volume, as stated
StatedVwap(high, low, close, volume) ==
    [i \in DOMAIN close |->
        LET pv == [j \in DOMAIN close |-> ((high[j] + low[j] + close[j]) \div 3) * volume[j]]
        IN  IF SumRange(volume, 1, i) = 0 THEN NaN
            ELSE Num(SumRange(pv, 1, i) \div SumRange(volume, 1, i))]

\* C27: VolumeCalculations.calculate_vwap and the VWAP of
\* TechnicalAnalysis._calculate_volume_indicators both are, at every bar, the
\* cumulative sum of typical_price * volume over the cumulative volume with
\* typical_price = (high + low + close) / 3, and so the same series.
C27_SameVwap ==
    (op \in {"calculate_vwap", "_calculate_volume_indicators"} /\ pc = "done") =>
        result = StatedVwap(args.high, args.low, args.close, args.volume)

----------------------------------------------------------------------------
(* Claims on RiskCalculations.calculate_risk_metrics (SpecReturns) *)

\* C28: the max_drawdown of RiskCalculations.calculate_risk_metrics(returns)
\* is min(cum / running_max(cum) - 1) with cum = cumprod(1 + returns), the
\* value RiskAnalyzer.calculate_max_drawdown computes for the price series
\* the returns come from.
C28_SameMaxDrawdown ==
    ReturnsDone => result.max_drawdown = calculate_max_drawdown(args.close)

============================================================================
